---- MODULE Spec2Model ----
(***************************************************************************)
(* The Solkoff ranking engine of ucl-solkoff: the match/standings store,   *)
(* the Solkoff calculator (backend/solkoff_calculator.py), the common-     *)
(* opponents analyzer (backend/playoff_analyzer.py) and the update pass of *)
(* the scheduler (backend/scheduler.py).                                   *)
(*                                                                         *)
(* Tables are sets of rows (records).  A coefficient is kept in            *)
(* thousandths: the float 0.333 is the integer 333, 0.0 is 0.              *)
(***************************************************************************)
EXTENDS Integers, Sequences, FiniteSets, TLC

\* ------------------------------------------------------------------ bounds
NumTeams == 3
MaxMatches == 2
MaxPoints == 1
MaxPlayed == 3
MaxScore == 1
LeagueMatches == 3
MaxCoefficient == 6
MaxMatchday == 15
\* The clock runs from 0 to MaxClock; an entry of the cache lives DefaultTtl
\* ticks (default_ttl_seconds).
MaxClock == 4
DefaultTtl == 2

\* SQL NULL in a nullable INTEGER column (scores, points, played).
NULL == -1

TeamIds == 1..NumTeams
MatchIds == 1..MaxMatches
Statuses == {"FINISHED", "SCHEDULED"}

\* teams, matches, standings, solkoff_coefficients, api_cache: the tables of
\* the store.  ret: what the last call returned.  updates: where each thread
\* that runs update_data stands in it.  utcnow: the clock, datetime.utcnow().
VARIABLES teams, matches, standings, solkoff_coefficients, ret, updates, api_cache, utcnow

vars == <<teams, matches, standings, solkoff_coefficients, ret, updates, api_cache, utcnow>>

\* The threads that run DataScheduler.update_data: the worker of the
\* BackgroundScheduler (the interval job) and the thread of the application
\* (trigger_update at start-up and on POST /api/refresh).
Threads == {"scheduler", "main"}

\* calls: what update_data has called in the pass the thread runs, or ran
\* last.  failed: sync_all raised in that pass.
NoUpdate == [pc |-> "idle", order |-> <<>>, next |-> 0, calls |-> <<>>, failed |-> FALSE]

\* ------------------------------------------------------ the store's rows
\* matches(id PK, home_team_id, away_team_id, home_score, away_score, status)
MatchRow(i, h, a, hs, as, st) ==
    [id |-> i, home_team_id |-> h, away_team_id |-> a,
     home_score |-> hs, away_score |-> as, status |-> st]

\* standings(team_id PK, played, points)
StandingsRow(t, pl, pts) == [team_id |-> t, played |-> pl, points |-> pts]

\* solkoff_coefficients(team_id PK, solkoff_value)
CoefficientRow(t, v) == [team_id |-> t, solkoff_value |-> v]

\* ------------------------------------------------------ SolkoffCalculator
\* get_opponents: the two SELECTs, both filtered on status = 'FINISHED' only.
get_opponents(M, team_id) ==
    {m.away_team_id : m \in {x \in M : x.home_team_id = team_id /\ x.status = "FINISHED"}}
    \cup
    {m.home_team_id : m \in {x \in M : x.away_team_id = team_id /\ x.status = "FINISHED"}}

\* SELECT points, played FROM standings WHERE team_id IN (opponents)
opponent_stats(S, opponents) == {r \in S : r.team_id \in opponents}

\* The rows that pass the test of the loop and are appended as points / played.
opponent_ppg_list(rows) ==
    {r \in rows : r.points # NULL /\ r.played # NULL /\ r.played > 0}

\* sum(opponent_ppg_list) as an exact fraction <<numerator, denominator>>.
RECURSIVE sum_ppg(_)
sum_ppg(rows) ==
    IF rows = {} THEN <<0, 1>>
    ELSE LET r == CHOOSE x \in rows : TRUE
             s == sum_ppg(rows \ {r})
         IN  <<s[1] * r.played + r.points * s[2], s[2] * r.played>>

\* Python's round(n / d, 3) of a non-negative quotient, in thousandths:
\* to the nearest thousandth, an exact half going to the even neighbour.
round3(n, d) ==
    LET q == (1000 * n) \div d
        r == (1000 * n) % d
    IN  IF 2 * r < d THEN q
        ELSE IF 2 * r > d THEN q + 1
        ELSE IF q % 2 = 0 THEN q ELSE q + 1

\* A calculator that averages over every opponent faced, so that an opponent
\* without a usable standings row counts as a zero-valued sample.
calculate_solkoff_over_all_faced(M, S, team_id) ==
    LET opponents == get_opponents(M, team_id)
        s == sum_ppg(opponent_ppg_list(opponent_stats(S, opponents)))
    IN  IF opponents = {} THEN 0
        ELSE round3(s[1], s[2] * Cardinality(opponents))

calculate_solkoff(M, S, team_id) ==
    LET opponents == get_opponents(M, team_id)
        ppg == opponent_ppg_list(opponent_stats(S, opponents))
        s == sum_ppg(ppg)
    IN  IF opponents = {} THEN 0
        ELSE IF ppg # {} THEN round3(s[1], s[2] * Cardinality(ppg))
        ELSE round3(0, 1)

\* INSERT INTO solkoff_coefficients ... VALUES (?, ?, ?): a plain insert,
\* which keeps the row the team already has.
insert_coefficient(table, row) == table \cup {row}

\* An upsert that adds the new value to the stored one.
accumulate_coefficient(table, row) ==
    {r \in table : r.team_id # row.team_id}
    \cup {CoefficientRow(row.team_id,
                         row.solkoff_value + r.solkoff_value) :
             r \in {x \in table : x.team_id = row.team_id}}
    \cup {r \in {row} : \A x \in table : x.team_id # row.team_id}

\* INSERT INTO solkoff_coefficients ... ON CONFLICT (team_id) DO UPDATE SET
\* solkoff_value = excluded.solkoff_value
upsert_coefficient(table, row) ==
    {r \in table : r.team_id # row.team_id} \cup {row}

\* The rows of SELECT id FROM teams, in any order (the query has no ORDER BY).
team_rows(T) ==
    {s \in [1..Cardinality(T) -> T] : \A i, j \in DOMAIN s : i # j => s[i] # s[j]}

ExecuteCall(team_id) == [call |-> "execute", team_id |-> team_id]
CommitCall == [call |-> "commit", team_id |-> 0]

\* A pass that commits after every write.
calculate_all_calls_commit_each(order, fail) ==
    IF fail = 0
    THEN [i \in 1..(2 * Len(order)) |->
            IF i % 2 = 1 THEN ExecuteCall(order[(i + 1) \div 2]) ELSE CommitCall]
    ELSE [i \in 1..fail |-> ExecuteCall(order[i])]

\* The calls one calculate_all pass makes on the database, in order: one
\* execute per team, then one commit.  fail = 0 when no call raises;
\* otherwise the execute of team order[fail] raises, and the exception, which
\* nothing in calculate_all catches, ends the pass there.
calculate_all_calls(order, fail) ==
    IF fail = 0
    THEN [i \in 1..Len(order) |-> ExecuteCall(order[i])] \o <<CommitCall>>
    ELSE [i \in 1..fail |-> ExecuteCall(order[i])]

\* The table after the executes of the teams order[1..n], each storing the
\* coefficient calculate_solkoff returns for its team.
RECURSIVE calculate_all_writes(_, _, _, _, _)
calculate_all_writes(M, S, table, order, n) ==
    IF n = 0 THEN table
    ELSE upsert_coefficient(
            calculate_all_writes(M, S, table, order, n - 1),
            CoefficientRow(order[n], calculate_solkoff(M, S, order[n])))

\* ------------------------------------------------------------ DataService
\* INSERT INTO matches ... ON CONFLICT (id) DO UPDATE SET home_score,
\* away_score, status (the teams of a stored match are not updated).
upsert_match(M, row) ==
    IF \E m \in M : m.id = row.id
    THEN {IF m.id = row.id
          THEN [m EXCEPT !.home_score = row.home_score,
                         !.away_score = row.away_score,
                         !.status = row.status]
          ELSE m : m \in M}
    ELSE M \cup {row}

\* INSERT INTO standings ... ON CONFLICT (team_id) DO UPDATE SET played, points
upsert_standings(S, row) ==
    {r \in S : r.team_id # row.team_id} \cup {row}

\* -------------------------------------------------------- PlayoffAnalyzer
\* SELECT DISTINCT CASE WHEN home_team_id = ? THEN away_team_id
\*                      ELSE home_team_id END
\* FROM matches WHERE (home_team_id = ? OR away_team_id = ?)
\*                AND status = 'FINISHED'
finished_opponents(M, team_id) ==
    {IF m.home_team_id = team_id THEN m.away_team_id ELSE m.home_team_id :
        m \in {x \in M : /\ x.home_team_id = team_id \/ x.away_team_id = team_id
                         /\ x.status = "FINISHED"}}

\* An analyzer that joins the two opponent sets instead of intersecting them.
find_common_opponents_union(M, team1_id, team2_id) ==
    {o \in finished_opponents(M, team1_id) : o # team1_id /\ o # team2_id}
    \cup
    {o \in finished_opponents(M, team2_id) : o # team1_id /\ o # team2_id}

\* An analyzer that looks for team 1's opponents in its home matches only.
find_common_opponents_home_only(M, team1_id, team2_id) ==
    {m.away_team_id : m \in {x \in M : x.home_team_id = team1_id /\ x.status = "FINISHED"}}
    \cap
    {o \in finished_opponents(M, team2_id) : o # team1_id /\ o # team2_id}

find_common_opponents(M, team1_id, team2_id) ==
    LET team1_opponent_set ==
            {o \in finished_opponents(M, team1_id) : o # team1_id /\ o # team2_id}
        team2_opponent_set ==
            {o \in finished_opponents(M, team2_id) : o # team1_id /\ o # team2_id}
    IN  team1_opponent_set \cap team2_opponent_set

\* The block of counters every team of the mini-league starts from
\* (all_teams_stats[team_id], and _get_team_stats when there is no common
\* opponent).
_get_team_stats(team_id) ==
    [teamId |-> team_id, played |-> 0, won |-> 0, drawn |-> 0, lost |-> 0,
     goalsFor |-> 0, goalsAgainst |-> 0, goalDifference |-> 0, points |-> 0,
     matches |-> <<>>]

\* One side's update for one match: played, goals, result, outcome record.
update_team_stats(stats, team_score, opponent_score, opponent_id, is_home) ==
    LET outcome == IF team_score > opponent_score THEN "win"
                   ELSE IF team_score < opponent_score THEN "loss"
                   ELSE "draw"
    IN  [stats EXCEPT
            !.played = @ + 1,
            !.goalsFor = @ + team_score,
            !.goalsAgainst = @ + opponent_score,
            !.won = IF outcome = "win" THEN @ + 1 ELSE @,
            !.lost = IF outcome = "loss" THEN @ + 1 ELSE @,
            !.drawn = IF outcome = "draw" THEN @ + 1 ELSE @,
            !.points = IF outcome = "win" THEN @ + 3
                       ELSE IF outcome = "draw" THEN @ + 1 ELSE @,
            !.matches = Append(@, [opponentId |-> opponent_id,
                                   teamScore |-> team_score,
                                   opponentScore |-> opponent_score,
                                   outcome |-> outcome,
                                   isHome |-> is_home])]

\* SELECT ... FROM matches m WHERE m.home_team_id IN (G) AND
\* m.away_team_id IN (G) AND m.status = 'FINISHED'
all_matches(M, G) ==
    {m \in M : m.home_team_id \in G /\ m.away_team_id \in G /\ m.status = "FINISHED"}

\* The rows of a query as a list.  The code orders by date, which the model
\* does not keep: the match id stands in for it.
RECURSIVE fetchall(_)
fetchall(rows) ==
    IF rows = {} THEN <<>>
    ELSE LET m == CHOOSE x \in rows : \A y \in rows : x.id >= y.id
         IN  <<m>> \o fetchall(rows \ {m})

\* A loop that counts a FINISHED match also when a score is missing (the
\* missing score read as 0).
RECURSIVE process_all_matches_unchecked(_, _)
process_all_matches_unchecked(rows, all_teams_stats) ==
    IF rows = <<>> THEN all_teams_stats
    ELSE LET m == rows[1]
             hs == IF m.home_score = NULL THEN 0 ELSE m.home_score
             as == IF m.away_score = NULL THEN 0 ELSE m.away_score
             home == IF m.home_team_id \in DOMAIN all_teams_stats
                     THEN [all_teams_stats EXCEPT ![m.home_team_id] =
                             update_team_stats(@, hs, as, m.away_team_id, TRUE)]
                     ELSE all_teams_stats
             away == IF m.away_team_id \in DOMAIN home
                     THEN [home EXCEPT ![m.away_team_id] =
                             update_team_stats(@, as, hs, m.home_team_id, FALSE)]
                     ELSE home
         IN  process_all_matches_unchecked(Tail(rows), away)

\* "Process all matches": the loop over all_matches.
RECURSIVE process_all_matches(_, _)
process_all_matches(rows, all_teams_stats) ==
    IF rows = <<>> THEN all_teams_stats
    ELSE LET m == rows[1]
             home == IF m.home_team_id \in DOMAIN all_teams_stats
                     THEN [all_teams_stats EXCEPT ![m.home_team_id] =
                             update_team_stats(@, m.home_score, m.away_score,
                                               m.away_team_id, TRUE)]
                     ELSE all_teams_stats
             away == IF m.away_team_id \in DOMAIN home
                     THEN [home EXCEPT ![m.away_team_id] =
                             update_team_stats(@, m.away_score, m.home_score,
                                               m.home_team_id, FALSE)]
                     ELSE home
         IN  IF m.home_score = NULL \/ m.away_score = NULL
             THEN process_all_matches(Tail(rows), all_teams_stats)
             ELSE process_all_matches(Tail(rows), away)

\* The goal difference, set once the matches are accumulated.
with_goal_difference(stats) ==
    [stats EXCEPT !.goalDifference = stats.goalsFor - stats.goalsAgainst]

\* calculate_league_table up to the accumulated statistics: team1 and team2
\* and the statistics of every team of the mini-league (all_teams_stats, the
\* rows of fullLeagueTable).
calculate_league_table(M, team1_id, team2_id, common_opponents) ==
    LET all_team_ids == {team1_id, team2_id} \cup common_opponents
        all_teams_stats ==
            process_all_matches(fetchall(all_matches(M, all_team_ids)),
                                [t \in all_team_ids |-> _get_team_stats(t)])
        table == [t \in all_team_ids |-> with_goal_difference(all_teams_stats[t])]
    IN  IF common_opponents = {}
        THEN [team1 |-> _get_team_stats(team1_id),
              team2 |-> _get_team_stats(team2_id),
              all_teams_stats |-> <<>>]
        ELSE [team1 |-> table[team1_id],
              team2 |-> table[team2_id],
              all_teams_stats |-> table]

\* ------------------------------------------- the mini-league's metrics
\* Fractions <<numerator, denominator>> with a positive denominator stand for
\* the floats of the code.
RECURSIVE GCD(_, _)
GCD(a, b) == IF b = 0 THEN a ELSE GCD(b, a % b)

\* The same value in lowest terms.
Reduce(x) == IF x[1] = 0 THEN <<0, 1>>
             ELSE LET g == GCD(x[1], x[2]) IN <<x[1] \div g, x[2] \div g>>

RatLess(x, y) == x[1] * y[2] < y[1] * x[2]
RatEq(x, y) == x[1] * y[2] = y[1] * x[2]

\* opponent_ids: the opponents recorded in stats["matches"].
league_opponent_ids(stats) ==
    {stats.matches[i].opponentId : i \in DOMAIN stats.matches}

\* The opponents whose points / played is appended to opponent_ppg_list:
\* those of the mini-league that played in it.
league_opponent_ppg_list(all_teams_stats, opponent_ids) ==
    {all_teams_stats[o] :
        o \in {x \in opponent_ids \cap DOMAIN all_teams_stats :
                  all_teams_stats[x].played > 0}}

\* A mini-league whose coefficient averages over every other team of the
\* mini-league, faced or not.
league_solkoff_value_over_whole_league(all_teams_stats, team_id) ==
    LET ppg == league_opponent_ppg_list(all_teams_stats,
                   DOMAIN all_teams_stats \ {team_id})
        s == sum_ppg(ppg)
    IN  IF ppg # {} THEN <<s[1], s[2] * Cardinality(ppg)>> ELSE <<0, 1>>

\* solkoff_value, the mean before it is rounded.
league_solkoff_value(all_teams_stats, team_id) ==
    LET ppg == league_opponent_ppg_list(all_teams_stats,
                   league_opponent_ids(all_teams_stats[team_id]))
        s == sum_ppg(ppg)
    IN  IF ppg # {} THEN Reduce(<<s[1], s[2] * Cardinality(ppg)>>) ELSE <<0, 1>>

\* "Calculate goal differences and additional metrics": one turn of the loop.
with_metrics(all_teams_stats, team_id) ==
    LET stats == all_teams_stats[team_id]
        max_points == stats.played * 3
        pointsPercentage == IF max_points > 0
                            THEN <<stats.points * 100, max_points>>
                            ELSE <<0, 1>>
        solkoff_value == league_solkoff_value(all_teams_stats, team_id)
    IN  [pointsPercentage |-> pointsPercentage,
         solkoffCoefficient |-> round3(solkoff_value[1], solkoff_value[2]),
         strengthPerGame |-> Reduce(<<pointsPercentage[1] * solkoff_value[1],
                                      pointsPercentage[2] * 100 * solkoff_value[2]>>)]
        @@ with_goal_difference(stats)

\* A key that leaves the coefficient out of the chain.
key_less_without_solkoff(x, y) ==
    \/ RatLess(y.pointsPercentage, x.pointsPercentage)
    \/ /\ RatEq(x.pointsPercentage, y.pointsPercentage)
       /\ \/ RatLess(y.strengthPerGame, x.strengthPerGame)
          \/ /\ RatEq(x.strengthPerGame, y.strengthPerGame)
             /\ x.goalsFor > y.goalsFor

\* The sort key of the league table, compared: x sorts strictly before y.
key_less(x, y) ==
    \/ RatLess(y.pointsPercentage, x.pointsPercentage)
    \/ /\ RatEq(x.pointsPercentage, y.pointsPercentage)
       /\ \/ x.solkoffCoefficient > y.solkoffCoefficient
          \/ /\ x.solkoffCoefficient = y.solkoffCoefficient
             /\ \/ RatLess(y.strengthPerGame, x.strengthPerGame)
                \/ /\ RatEq(x.strengthPerGame, y.strengthPerGame)
                   /\ x.goalsFor > y.goalsFor

\* sorted(values, key=...): stable, entries of equal key keep their order.
RECURSIVE sorted(_)
sorted(values) ==
    IF values = <<>> THEN <<>>
    ELSE LET n == Len(values)
             x == values[n]
             front == sorted(SubSeq(values, 1, n - 1))
             k == Cardinality({i \in DOMAIN front : ~key_less(x, front[i])})
         IN  SubSeq(front, 1, k) \o <<x>> \o SubSeq(front, k + 1, Len(front))

\* ----------------------------------------------- the win probability
\* Python's round(x, 3) of the float x that stands for n / d, in thousandths.
\* Where n / d lies exactly halfway between two thousandths the float, the
\* result of inexact divisions, lies on either side of the half, and either
\* neighbour comes out.
round3_float(n, d) ==
    LET q == (1000 * n) \div d
        r == (1000 * n) % d
    IN  IF 2 * r < d THEN {q}
        ELSE IF 2 * r > d THEN {q + 1}
        ELSE {q, q + 1}

\* 0.0, as a fraction.
NoStrength == <<0, 1>>

\* _get_main_league_strength: (points * 100.0 / (played * 3)) *
\* COALESCE(solkoff_value, 0) / 100.0 of the team's standings row when
\* played > 0; 0 when played is 0 or null, when points is null (the SQL value
\* is NULL), and when the team has no standings row.  solkoff_value is in
\* thousandths.
_get_main_league_strength(S, C, team_id) ==
    LET rows == {r \in S : r.team_id = team_id}
        s == CHOOSE r \in rows : TRUE
        sc == {c \in C : c.team_id = team_id}
        solkoff_value == IF sc = {} THEN 0 ELSE (CHOOSE c \in sc : TRUE).solkoff_value
    IN  IF rows = {} THEN NoStrength
        ELSE IF s.played = NULL \/ s.played <= 0 \/ s.points = NULL THEN NoStrength
        ELSE Reduce(<<s.points * solkoff_value, s.played * 3 * 1000>>)

\* team_stats.get("strengthPerGame", 0.0) if team_stats else 0.0
historical_strength(team_stats) ==
    IF "strengthPerGame" \in DOMAIN team_stats
    THEN team_stats.strengthPerGame ELSE NoStrength

\* (main * 0.5) + (historical * 0.5)
combined_strength(main, historical) ==
    Reduce(<<main[1] * historical[2] + historical[1] * main[2],
             2 * main[2] * historical[2]>>)

\* The records _calculate_win_probability can return.  Probabilities and
\* strengths are in thousandths.
_calculate_win_probability(team1_stats, team2_stats, team1_main_strength, team2_main_strength) ==
    LET team1_historical_strength == historical_strength(team1_stats)
        team2_historical_strength == historical_strength(team2_stats)
        c1 == combined_strength(team1_main_strength, team1_historical_strength)
        c2 == combined_strength(team2_main_strength, team2_historical_strength)
        \* The combined strengths over a common denominator.
        s1 == c1[1] * c2[2]
        s2 == c2[1] * c1[2]
        total_combined_strength == s1 + s2
    IN  IF total_combined_strength = 0
        THEN {[team1Win |-> w, team2Win |-> w, draw |-> 0,
               method |-> "equal_strength"] : w \in round3_float(1, 2)}
        ELSE {[team1Win |-> w1, team2Win |-> w2, draw |-> 0,
               method |-> "combined_strength",
               team1MainStrength |-> m1, team2MainStrength |-> m2,
               team1HistoricalStrength |-> h1, team2HistoricalStrength |-> h2] :
                 w1 \in round3_float(s1, total_combined_strength),
                 w2 \in round3_float(s2, total_combined_strength),
                 m1 \in round3_float(team1_main_strength[1], team1_main_strength[2]),
                 m2 \in round3_float(team2_main_strength[1], team2_main_strength[2]),
                 h1 \in round3_float(team1_historical_strength[1],
                                    team1_historical_strength[2]),
                 h2 \in round3_float(team2_historical_strength[1],
                                    team2_historical_strength[2])}

\* ------------------------------------------------- the whole analysis
\* Python's None.
None == "None"

\* A team's name and crest as the teams table holds them.
StoredName(team_id) == ToString(team_id)

\* A lookup that takes the row for granted.
team_name_unchecked(T, team_id) == StoredName(team_id)

\* team_info[team_id]["name"] if team_id in team_info else "Unknown", and
\* team_data[1] if team_data else "Unknown"
team_name(T, team_id) ==
    IF team_id \in T THEN StoredName(team_id) ELSE "Unknown"

team_crest(T, team_id) ==
    IF team_id \in T THEN StoredName(team_id) ELSE None

\* A block of statistics with the team's name and crest.
named(T, stats) ==
    [teamName |-> team_name(T, stats.teamId),
     teamCrest |-> team_crest(T, stats.teamId)] @@ stats

\* A league table that is built also when there is no common opponent.
no_common_opponents_never(common_opponents) == FALSE

\* if not common_opponents: return ...
no_common_opponents(common_opponents) == common_opponents = {}

\* The results calculate_league_table can return: the list of the mini-league
\* (list(all_team_ids)) comes in any order, the rounding of the probabilities
\* as round3_float says.
calculate_league_table_results(M, S, C, T, team1_id, team2_id, common_opponents) ==
    LET all_team_ids == {team1_id, team2_id} \cup common_opponents
        all_teams_stats ==
            process_all_matches(fetchall(all_matches(M, all_team_ids)),
                                [t \in all_team_ids |-> _get_team_stats(t)])
        table == [t \in all_team_ids |->
                     named(T, with_metrics(all_teams_stats, t))]
    IN  IF no_common_opponents(common_opponents)
        THEN {[team1 |-> named(T, _get_team_stats(team1_id)),
               team2 |-> named(T, _get_team_stats(team2_id)),
               commonOpponents |-> {},
               fullLeagueTable |-> <<>>]}
        ELSE {[team1 |-> table[team1_id],
               team2 |-> table[team2_id],
               commonOpponents |-> common_opponents \cap T,
               fullLeagueTable |-> sorted([i \in DOMAIN values |-> table[values[i]]]),
               winProbability |-> win_probability] :
                 values \in team_rows(all_team_ids),
                 win_probability \in
                     _calculate_win_probability(
                         table[team1_id], table[team2_id],
                         _get_main_league_strength(S, C, team1_id),
                         _get_main_league_strength(S, C, team2_id))}

\* The results analyze_pair can return.
analyze_pair(M, S, C, T, team1_id, team2_id) ==
    {[team1 |-> [id |-> team1_id, name |-> team_name(T, team1_id),
                 crest |-> team_crest(T, team1_id)],
      team2 |-> [id |-> team2_id, name |-> team_name(T, team2_id),
                 crest |-> team_crest(T, team2_id)],
      commonOpponentsCount |->
          Cardinality(find_common_opponents(M, team1_id, team2_id)),
      leagueTable |-> league_table] :
        league_table \in calculate_league_table_results(M, S, C, T,
            team1_id, team2_id, find_common_opponents(M, team1_id, team2_id))}

\* ------------------------------------------------- the knockout classifier
\* A TEXT column (stage, round, group_name) is the sequence of its
\* characters.  NullText is SQL NULL, Python's None, in such a column; the
\* empty string is <<>>.
NullText == <<"NULL">>

\* if api_round: / if api_stage: / if group_name and group_name != ''
truthy(text) == text # NullText /\ text # <<>>

Lowercase == <<"a", "b", "c", "d", "e", "f", "g", "h", "i", "j", "k", "l", "m",
               "n", "o", "p", "q", "r", "s", "t", "u", "v", "w", "x", "y", "z">>
Uppercase == <<"A", "B", "C", "D", "E", "F", "G", "H", "I", "J", "K", "L", "M",
               "N", "O", "P", "Q", "R", "S", "T", "U", "V", "W", "X", "Y", "Z">>

\* str.upper() and SQL UPPER()
upper(text) ==
    [i \in DOMAIN text |->
        IF \E k \in DOMAIN Lowercase : Lowercase[k] = text[i]
        THEN Uppercase[CHOOSE k \in DOMAIN Lowercase : Lowercase[k] = text[i]]
        ELSE text[i]]

\* marker in text (Python's substring test)
contains(marker, text) ==
    \E i \in 1..(Len(text) - Len(marker) + 1) :
        SubSeq(text, i, i + Len(marker) - 1) = marker

\* text LIKE '%pattern%': in a LIKE pattern the underscore stands for any
\* one character.  A NULL text matches nothing.
like(text, pattern) ==
    /\ text # NullText
    /\ \E i \in 1..(Len(text) - Len(pattern) + 1) :
          \A j \in DOMAIN pattern :
              pattern[j] = "_" \/ text[i + j - 1] = pattern[j]

\* The markers and the stage values of the classifier.
PLAY_OFF == <<"P", "L", "A", "Y", "_", "O", "F", "F">>
PLAYOFF == <<"P", "L", "A", "Y", "O", "F", "F">>
ROUND_OF_16 == <<"R", "O", "U", "N", "D", "_", "O", "F", "_", "1", "6">>
ROUND_OF_16_SPACED == <<"R", "O", "U", "N", "D", " ", "O", "F", " ", "1", "6">>
LAST_16 == <<"L", "A", "S", "T", "_", "1", "6">>
QUARTER == <<"Q", "U", "A", "R", "T", "E", "R">>
SEMI == <<"S", "E", "M", "I">>
FINAL == <<"F", "I", "N", "A", "L">>
QUARTER_FINAL == QUARTER \o <<"_">> \o FINAL
SEMI_FINAL == SEMI \o <<"_">> \o FINAL
KNOCKOUT == <<"K", "N", "O", "C", "K", "O", "U", "T">>
KNOCKOUT_OUT == KNOCKOUT \o <<"_", "O", "U", "T">>
KNOCKOUT_ROUND == KNOCKOUT \o <<"_", "R", "O", "U", "N", "D">>
PLAYOFFS == PLAYOFF \o <<"S">>
LEAGUE_STAGE == <<"L", "E", "A", "G", "U", "E", "_", "S", "T", "A", "G", "E">>

\* WHERE m.status IN (...)
ListedStatuses == {"SCHEDULED", "TIMED", "LIVE", "IN_PLAY", "PAUSED", "FINISHED"}

\* The exception a comparison with None raises.
TypeError == "TypeError"

\* What a call gives: the value it returns, or the exception it raises.
Returned(value) == [raised |-> None, value |-> value]
Raised(exception) == [raised |-> exception, value |-> <<>>]

\* The stage a round text names: the first marker of the chain that is in it.
round_marker(round_upper) ==
    IF contains(PLAY_OFF, round_upper) \/ contains(PLAYOFF, round_upper)
    THEN "KNOCKOUT_PLAYOFF"
    ELSE IF \/ contains(ROUND_OF_16, round_upper)
            \/ contains(ROUND_OF_16_SPACED, round_upper)
            \/ contains(LAST_16, round_upper)
    THEN "ROUND_OF_16"
    ELSE IF contains(QUARTER, round_upper) THEN "QUARTER_FINAL"
    ELSE IF contains(SEMI, round_upper) THEN "SEMI_FINAL"
    ELSE IF contains(FINAL, round_upper) THEN "FINAL"
    ELSE None

\* The stage a stage text names.
stage_marker(stage_upper) ==
    IF contains(KNOCKOUT, stage_upper) \/ contains(PLAY_OFF, stage_upper)
    THEN "KNOCKOUT_PLAYOFF"
    ELSE IF contains(ROUND_OF_16, stage_upper) \/ contains(LAST_16, stage_upper)
    THEN "ROUND_OF_16"
    ELSE IF contains(QUARTER, stage_upper) THEN "QUARTER_FINAL"
    ELSE IF contains(SEMI, stage_upper) THEN "SEMI_FINAL"
    ELSE IF contains(FINAL, stage_upper) THEN "FINAL"
    ELSE None

\* if matchday <= 8: ... else: "Final" (the matchday is not None here)
matchday_stage(matchday) ==
    IF matchday <= 8 THEN "KNOCKOUT_PLAYOFF"
    ELSE IF matchday <= 10 THEN "ROUND_OF_16"
    ELSE IF matchday <= 12 THEN "QUARTER_FINAL"
    ELSE IF matchday <= 14 THEN "SEMI_FINAL"
    ELSE "FINAL"

StageNames == {"KNOCKOUT_PLAYOFF", "ROUND_OF_16", "QUARTER_FINAL", "SEMI_FINAL", "FINAL"}

stage_display_name(stage) ==
    CASE stage = "KNOCKOUT_PLAYOFF" -> "Knockout Round Play-off"
      [] stage = "ROUND_OF_16" -> "Round of 16"
      [] stage = "QUARTER_FINAL" -> "Quarter-finals"
      [] stage = "SEMI_FINAL" -> "Semi-finals"
      [] stage = "FINAL" -> "Final"
      [] OTHER -> stage

\* A classification in which the stage text is read before the round text.
stage_label_stage_text_first(match) ==
    LET from_stage == IF truthy(match.stage)
                      THEN stage_marker(upper(match.stage)) ELSE None
        from_round == IF from_stage = None /\ truthy(match.round)
                      THEN round_marker(upper(match.round)) ELSE None
    IN  IF from_stage # None THEN stage_display_name(from_stage)
        ELSE IF from_round # None THEN stage_display_name(from_round)
        ELSE IF match.matchday = NULL THEN TypeError
        ELSE stage_display_name(matchday_stage(match.matchday))

\* get_playoff_pairs, the label of one match: the round text, then the stage
\* text, then the matchday, whose comparison raises when the matchday is None.
stage_label(match) ==
    LET from_round == IF truthy(match.round)
                      THEN round_marker(upper(match.round)) ELSE None
        from_stage == IF from_round = None /\ truthy(match.stage)
                      THEN stage_marker(upper(match.stage)) ELSE None
    IN  IF from_round # None THEN stage_display_name(from_round)
        ELSE IF from_stage # None THEN stage_display_name(from_stage)
        ELSE IF match.matchday = NULL THEN TypeError
        ELSE stage_display_name(matchday_stage(match.matchday))

\* ------------------------------------------------------------ the dates
\* The date column is TEXT.  A date text is NULL, the empty string, a text
\* that is no date ('TBD'), or an ISO-8601 text, which the model keeps by its
\* fields: year-month-dayThour:00:00 and the zone suffix ('', 'Z', '+02:00').
DateText(year, month, day, hour, zone) ==
    [text |-> "iso", year |-> year, month |-> month, day |-> day,
     hour |-> hour, zone |-> zone]

NotADate(text) ==
    [text |-> text, year |-> 0, month |-> 0, day |-> 0, hour |-> 0, zone |-> ""]

\* SQL NULL and Python's None in the date column and in the date of a pair.
NullDate == NotADate("NULL")

\* datetime.now(timezone.utc), to the hour.
Now(year, month, day, hour) ==
    [year |-> year, month |-> month, day |-> day, hour |-> hour]

\* The days from 1970-01-01 to a day of the proleptic Gregorian calendar.
days_from_civil(year, month, day) ==
    LET y == IF month <= 2 THEN year - 1 ELSE year
        era == y \div 400
        yoe == y - era * 400
        doy == (153 * (IF month > 2 THEN month - 3 ELSE month + 9) + 2) \div 5
               + day - 1
        doe == yoe * 365 + yoe \div 4 - yoe \div 100 + doy
    IN  era * 146097 + doe - 719468

is_leap(year) ==
    year % 4 = 0 /\ (year % 100 # 0 \/ year % 400 = 0)

\* datetime(year, month, day) raises ValueError on a day the month has not.
day_exists(year, month, day) ==
    /\ month \in 1..12
    /\ day >= 1
    /\ day <= (IF month = 2 THEN (IF is_leap(year) THEN 29 ELSE 28)
               ELSE IF month \in {4, 6, 9, 11} THEN 30 ELSE 31)

\* The hours a zone suffix is ahead of UTC; a text without a zone is read
\* as UTC.
utc_offset(zone) == IF zone = "+02:00" THEN 2 ELSE 0

\* date.astimezone(timezone.utc), in hours from 1970-01-01T00:00Z.
utc_hours(date) ==
    days_from_civil(date.year, date.month, date.day) * 24 + date.hour
    - utc_offset(date.zone)

\* if date_str: / if match[5]
truthy_date(date) == date.text \notin {"NULL", ""}

\* A filter that accepts every text that parses.
_is_valid_date_unbounded(date_str, now) ==
    truthy_date(date_str) /\ date_str.text = "iso"

\* _is_valid_date: False for None and '', for a text fromisoformat rejects,
\* and when datetime(now.year + 2, now.month, now.day) raises (29 February);
\* otherwise the date is kept unless it is after the start of the day two
\* years from now or before now - 180 days.
_is_valid_date(date_str, now) ==
    /\ truthy_date(date_str)
    /\ date_str.text = "iso"
    /\ day_exists(now.year + 2, now.month, now.day)
    /\ LET date_utc == utc_hours(date_str)
           now_utc == days_from_civil(now.year, now.month, now.day) * 24 + now.hour
           two_years_from_now ==
               days_from_civil(now.year + 2, now.month, now.day) * 24
           six_months_ago == now_utc - 180 * 24
       IN  ~(date_utc > two_years_from_now) /\ ~(date_utc < six_months_ago)

\* The order of the date texts as strings: '' first, the ISO texts by their
\* fields and then their suffix ('' < '+02:00' < 'Z'), 'TBD' after them.
date_order(date) ==
    IF date.text = "" THEN 0
    ELSE IF date.text = "iso"
    THEN (((date.year * 13 + date.month) * 32 + date.day) * 24 + date.hour) * 3
         + (IF date.zone = "" THEN 0 ELSE IF date.zone = "+02:00" THEN 1 ELSE 2)
    ELSE 2000000000

\* ------------------------------------------------------------ the pairs
\* matches(..., matchday, date, stage, round, group_name): the columns the
\* classifier reads, next to those of MatchRow.  The stores it is run on hold
\* fixtures: no score yet.
DatedMatchRow(i, h, a, st, md, stage, round, group_name, date) ==
    MatchRow(i, h, a, NULL, NULL, st) @@
    [matchday |-> md, stage |-> stage, round |-> round,
     group_name |-> group_name, date |-> date]

\* A match without a date.
KnockoutMatchRow(i, h, a, st, md, stage, round, group_name) ==
    DatedMatchRow(i, h, a, st, md, stage, round, group_name, NullDate)

\* (m.group_name IS NULL OR m.group_name = '')
no_group(m) == m.group_name = NullText \/ m.group_name = <<>>

\* JOIN teams t1 ... JOIN teams t2 ... WHERE m.status IN (...)
listed(M, T) ==
    {m \in M : /\ m.home_team_id \in T
               /\ m.away_team_id \in T
               /\ m.status \in ListedStatuses}

\* The WHERE clause of get_playoff_pairs.  A comparison with NULL is not
\* true: m.stage != 'LEAGUE_STAGE' drops the rows whose stage is NULL.
playoff_matches(M, T) ==
    {m \in listed(M, T) :
        /\ m.stage # NullText /\ m.stage # LEAGUE_STAGE
        /\ \/ m.stage = KNOCKOUT_OUT
           \/ m.stage = KNOCKOUT_ROUND
           \/ /\ m.round # NullText
              /\ \/ like(upper(m.round), PLAY_OFF)
                 \/ like(upper(m.round), ROUND_OF_16)
                 \/ like(upper(m.round), QUARTER_FINAL)
                 \/ like(upper(m.round), SEMI_FINAL)
                 \/ like(upper(m.round), FINAL)
           \/ /\ m.matchday # NULL /\ m.matchday >= 7
              /\ no_group(m)
              /\ (m.stage = NullText \/ m.stage # LEAGUE_STAGE)}

\* ORDER BY m.matchday, m.date: NULLs last in both; rows equal in both come
\* in the order of their ids.
RECURSIVE order_by_matchday(_)
order_by_matchday(rows) ==
    IF rows = {} THEN <<>>
    ELSE LET nulls_last(x, y, x_null, y_null) ==
                 IF x_null \/ y_null THEN (IF x_null = y_null THEN 0
                                           ELSE IF y_null THEN -1 ELSE 1)
                 ELSE IF x < y THEN -1 ELSE IF x > y THEN 1 ELSE 0
             by_matchday(x, y) ==
                 nulls_last(x.matchday, y.matchday,
                            x.matchday = NULL, y.matchday = NULL)
             by_date(x, y) ==
                 nulls_last(date_order(x.date), date_order(y.date),
                            x.date = NullDate, y.date = NullDate)
             before(x, y) ==
                 \/ by_matchday(x, y) < 0
                 \/ by_matchday(x, y) = 0 /\ by_date(x, y) < 0
                 \/ by_matchday(x, y) = 0 /\ by_date(x, y) = 0 /\ x.id <= y.id
             m == CHOOSE x \in rows : \A y \in rows : before(x, y)
         IN  <<m>> \o order_by_matchday(rows \ {m})

\* tuple(sorted([home_id, away_id]))
pair_key(home_id, away_id) ==
    IF home_id <= away_id THEN <<home_id, away_id>> ELSE <<away_id, home_id>>

\* The name and the crest of a team as the columns t.name and t.crest give
\* them: a text of one symbol.
name_column(team_id) == <<StoredName(team_id)>>

\* match[5] if match[5] and self._is_valid_date(match[5]) else None
valid_or_none(date, now) ==
    IF truthy_date(date) /\ _is_valid_date(date, now) THEN date ELSE NullDate

\* The pair a match opens in get_playoff_pairs.  The name and the crest of
\* team1 are read from columns 6 and 7 of the row, the stage and the round;
\* those of team2 from columns 8 and 9, the name and the crest of the home
\* team.
playoff_pair(match, now) ==
    [matchId |-> match.id,
     team1 |-> [id |-> match.home_team_id,
                name |-> match.stage, crest |-> match.round],
     team2 |-> [id |-> match.away_team_id,
                name |-> name_column(match.home_team_id),
                crest |-> name_column(match.home_team_id)],
     matchday |-> match.matchday,
     stage |-> stage_label(match),
     status |-> match.status,
     date |-> valid_or_none(match.date, now),
     apiStage |-> match.stage,
     apiRound |-> match.round]

\* The pair a match opens in get_pairs_by_stage.
stage_pair(match, stage, now) ==
    [matchId |-> match.id,
     team1 |-> [id |-> match.home_team_id,
                name |-> name_column(match.home_team_id),
                crest |-> name_column(match.home_team_id)],
     team2 |-> [id |-> match.away_team_id,
                name |-> name_column(match.away_team_id),
                crest |-> name_column(match.away_team_id)],
     matchday |-> match.matchday,
     stage |-> stage_display_name(stage),
     status |-> match.status,
     date |-> valid_or_none(match.date, now),
     apiStage |-> match.stage,
     apiRound |-> match.round]

\* if matchday > existing_pair["matchday"] or (matchday ==
\* existing_pair["matchday"] and match[5] and existing_pair.get("date") and
\* match[5] > existing_pair["date"]), the matchdays not None
replaces(match, existing_pair) ==
    \/ match.matchday > existing_pair.matchday
    \/ /\ match.matchday = existing_pair.matchday
       /\ truthy_date(match.date)
       /\ truthy_date(existing_pair.date)
       /\ date_order(match.date) > date_order(existing_pair.date)

\* The loop over the rows, given the pair each row would open: a row of a
\* new pair opens it; a later row of a pair replaces matchId, matchday and
\* status when replaces says so, and the date when its own is valid.
\* Comparing matchdays raises when one of them is None, and so does the
\* matchday fallback of the label.
RECURSIVE merge_pairs(_, _, _, _)
merge_pairs(rows, opened, pairs, now) ==
    IF Len(rows) = 0 THEN Returned(pairs)
    ELSE LET match == Head(rows)
             new == Head(opened)
             key == pair_key(match.home_team_id, match.away_team_id)
             seen == {i \in DOMAIN pairs :
                         pair_key(pairs[i].team1.id, pairs[i].team2.id) = key}
         IN  IF new.stage = TypeError THEN Raised(TypeError)
             ELSE IF seen = {}
             THEN merge_pairs(Tail(rows), Tail(opened), Append(pairs, new), now)
             ELSE LET i == CHOOSE k \in seen : TRUE
                  IN  IF match.matchday = NULL \/ pairs[i].matchday = NULL
                      THEN Raised(TypeError)
                      ELSE IF replaces(match, pairs[i])
                      THEN merge_pairs(Tail(rows), Tail(opened),
                               [pairs EXCEPT ![i] =
                                   [@ EXCEPT !.matchId = match.id,
                                             !.matchday = match.matchday,
                                             !.status = match.status,
                                             !.date =
                                                 IF /\ truthy_date(match.date)
                                                    /\ _is_valid_date(match.date, now)
                                                 THEN match.date ELSE @]],
                               now)
                      ELSE merge_pairs(Tail(rows), Tail(opened), pairs, now)

\* The order of two sort keys, tuples of integers with NULL for None.
key_before(x, y) ==
    \E i \in DOMAIN x :
        /\ \A j \in 1..(i - 1) : x[j] = y[j]
        /\ x[i] < y[i]

\* Comparing two keys compares their first elements that differ: it raises
\* when one of the two is None.
keys_compare(x, y) ==
    \A i \in DOMAIN x :
        ((\A j \in 1..(i - 1) : x[j] = y[j]) /\ x[i] # y[i])
        => (x[i] = NULL) = (y[i] = NULL)

\* The date of a pair in a sort key.
date_key(date) == IF date = NullDate THEN NULL ELSE date_order(date)

\* list.sort(key=...): stable, ascending on the keys.
RECURSIVE sort_pairs(_, _)
sort_pairs(pairs, keys) ==
    IF Len(pairs) = 0 THEN <<>>
    ELSE LET i == CHOOSE k \in DOMAIN pairs :
                      \A j \in DOMAIN pairs :
                          \/ key_before(keys[k], keys[j])
                          \/ ~key_before(keys[j], keys[k]) /\ k <= j
             rest == SelectSeq([j \in DOMAIN pairs |-> j], LAMBDA j : j # i)
         IN  <<pairs[i]>> \o
             sort_pairs([j \in DOMAIN rest |-> pairs[rest[j]]],
                        [j \in DOMAIN rest |-> keys[rest[j]]])

\* The sort of a list: it raises when two of its keys do not compare (the
\* sort of the two pairs a store of the bounds gives compares them).
sorted_pairs(pairs, keys) ==
    IF \A i \in DOMAIN keys, j \in DOMAIN keys : keys_compare(keys[i], keys[j])
    THEN Returned(sort_pairs(pairs, keys))
    ELSE Raised(TypeError)

\* stage_priority of get_playoff_pairs
playoff_stage_priority(label) ==
    CASE label = "Knockout Round Play-off" -> 1
      [] label = "Round of 16" -> 2
      [] label = "Quarter-finals" -> 3
      [] label = "Semi-finals" -> 4
      [] label = "Final" -> 5
      [] OTHER -> 99

\* get_playoff_pairs without a stage.  The last sort is on (stage priority,
\* matchday, date).
get_playoff_pairs(M, T, now) ==
    LET rows == order_by_matchday(playoff_matches(M, T))
        kept == SelectSeq(rows, LAMBDA m : m.stage # LEAGUE_STAGE)
        merged == merge_pairs(kept,
                      [i \in DOMAIN kept |-> playoff_pair(kept[i], now)],
                      <<>>, now)
        pairs == merged.value
    IN  IF merged.raised # None THEN merged
        ELSE sorted_pairs(pairs,
                 [i \in DOMAIN pairs |->
                     <<playoff_stage_priority(pairs[i].stage),
                       pairs[i].matchday, date_key(pairs[i].date)>>])

\* stage_filters of get_pairs_by_stage
round_patterns(stage) ==
    CASE stage = "KNOCKOUT_PLAYOFF" -> {PLAY_OFF, PLAYOFF}
      [] stage = "ROUND_OF_16" -> {ROUND_OF_16, ROUND_OF_16_SPACED, LAST_16}
      [] stage = "QUARTER_FINAL" -> {QUARTER}
      [] stage = "SEMI_FINAL" -> {SEMI}
      [] stage = "FINAL" -> {FINAL}

stage_values(stage) ==
    IF stage = "KNOCKOUT_PLAYOFF"
    THEN {KNOCKOUT_OUT, KNOCKOUT_ROUND, PLAYOFFS, PLAY_OFF}
    ELSE {}

matchday_range(stage) ==
    CASE stage = "KNOCKOUT_PLAYOFF" -> <<1, 10>>
      [] stage = "ROUND_OF_16" -> <<9, 10>>
      [] stage = "QUARTER_FINAL" -> <<11, 12>>
      [] stage = "SEMI_FINAL" -> <<13, 14>>
      [] stage = "FINAL" -> <<15, 999>>

\* The WHERE clause get_pairs_by_stage builds: LEAGUE_STAGE is not excluded
\* (the condition is commented out), and the group and the stage are looked
\* at in the matchday condition only.
stage_matches(M, T, stage) ==
    {m \in listed(M, T) :
        \/ \E pattern \in round_patterns(stage) : like(upper(m.round), pattern)
        \/ m.stage \in stage_values(stage)
        \/ /\ m.matchday # NULL
           /\ m.matchday >= matchday_range(stage)[1]
           /\ m.matchday <= matchday_range(stage)[2]
           /\ no_group(m)
           /\ (m.stage = NullText \/ m.stage # LEAGUE_STAGE)}

\* The record a pair gets when its computation raised.
ErrorProbability ==
    [team1Win |-> 500, team2Win |-> 500, draw |-> 0, method |-> "error"]

\* A loop in which one failure gives every pair the error record.
pair_win_probabilities_all_or_none(M, S, C, T, pair, failing) ==
    IF failing # {} THEN {ErrorProbability}
    ELSE {[team1Win |-> 500, team2Win |-> 500, draw |-> 0,
           method |-> "no_common_opponents"]}

\* The win probability get_pairs_by_stage gives a pair, in thousandths.
\* failing: the pairs for which find_common_opponents or
\* calculate_league_table raises; the except clause gives them the error
\* record.
pair_win_probabilities(M, S, C, T, pair, failing) ==
    LET common_opponents == find_common_opponents(M, pair.team1.id, pair.team2.id)
    IN  IF pair_key(pair.team1.id, pair.team2.id) \in failing
        THEN {ErrorProbability}
        ELSE IF common_opponents # {}
        THEN {result.winProbability :
                 result \in calculate_league_table_results(M, S, C, T,
                     pair.team1.id, pair.team2.id, common_opponents)}
        ELSE {[team1Win |-> 500, team2Win |-> 500, draw |-> 0,
               method |-> "no_common_opponents"]}

RECURSIVE with_win_probability(_, _, _, _, _, _)
with_win_probability(M, S, C, T, pairs, failing) ==
    IF Len(pairs) = 0 THEN {<<>>}
    ELSE {<<[winProbability |-> w] @@ Head(pairs)>> \o rest :
             w \in pair_win_probabilities(M, S, C, T, Head(pairs), failing),
             rest \in with_win_probability(M, S, C, T, Tail(pairs), failing)}

\* The results get_pairs_by_stage can give.  The last sort is on (matchday,
\* date).
get_pairs_by_stage(M, S, C, T, stage, now, failing) ==
    IF stage \notin StageNames THEN {Returned(<<>>)}
    ELSE LET rows == order_by_matchday(stage_matches(M, T, stage))
             kept == SelectSeq(rows, LAMBDA m : m.stage # LEAGUE_STAGE)
             merged == merge_pairs(kept,
                           [i \in DOMAIN kept |-> stage_pair(kept[i], stage, now)],
                           <<>>, now)
         IN  IF merged.raised # None THEN {merged}
             ELSE {sorted_pairs(pairs,
                       [i \in DOMAIN pairs |->
                           <<pairs[i].matchday, date_key(pairs[i].date)>>]) :
                     pairs \in with_win_probability(M, S, C, T, merged.value,
                                                    failing)}

\* stage_priority of get_current_stage
current_stage_priority(stage) ==
    CASE stage = "FINAL" -> 6
      [] stage = "SEMI_FINAL" -> 5
      [] stage = "QUARTER_FINAL" -> 4
      [] stage = "ROUND_OF_16" -> 3
      [] stage = "KNOCKOUT_PLAYOFF" -> 2
      [] stage = "LEAGUE" -> 1
      [] OTHER -> 0

\* The stages one scanned match adds to stages_found: one from the round
\* text, one from the stage text and one from the matchday, each on its own.
stages_of(match) ==
    ({IF truthy(match.round) THEN round_marker(upper(match.round)) ELSE None}
     \cup {IF truthy(match.stage) THEN stage_marker(upper(match.stage)) ELSE None}
     \cup {IF match.matchday >= 7 THEN matchday_stage(match.matchday) ELSE None})
    \ {None}

\* get_current_stage: the scan takes the rows of every listed status (at
\* most 100 of them, more than a store of the bounds holds), skips the
\* league rows, and raises on if matchday >= 7 when a matchday is None.
get_current_stage(M) ==
    LET rows == {m \in M : m.status \in ListedStatuses}
        scanned == {m \in rows :
                       ~(m.stage = LEAGUE_STAGE \/ truthy(m.group_name))}
        stages_found == UNION {stages_of(m) : m \in scanned}
    IN  IF \E m \in scanned : m.matchday = NULL THEN Raised(TypeError)
        ELSE IF stages_found = {} THEN Returned("LEAGUE")
        ELSE Returned(CHOOSE s \in stages_found :
                          \A x \in stages_found :
                              current_stage_priority(s) >= current_stage_priority(x))

\* ------------------------------------------------------------- the cache
\* The table api_cache: the columns it was created with and its rows.  A row
\* is a function from the columns to their values.
NoTable == [columns |-> {}, rows |-> {}]

\* CREATE TABLE IF NOT EXISTS: a table that exists is left as it is.
create_table_if_not_exists(table, columns) ==
    IF table.columns # {} THEN table ELSE [columns |-> columns, rows |-> {}]

\* Database._initialize_schema: the API cache table.
DatabaseCacheColumns == {"cache_key", "response_data", "created_at", "expires_at"}
_initialize_schema(table) == create_table_if_not_exists(table, DatabaseCacheColumns)

\* APICache._initialize_cache_table
APICacheColumns == {"cache_key", "endpoint", "response_data", "cached_at", "expires_at"}
_initialize_cache_table(table) == create_table_if_not_exists(table, APICacheColumns)

\* db = Database(...) and then APICache(db): the table of the store every
\* cache works on.
ConstructedCache == _initialize_cache_table(_initialize_schema(NoTable))

\* hashlib.md5(endpoint.encode()).hexdigest(): one key per endpoint.
_generate_key(endpoint) == <<"md5", endpoint>>

\* A response is a JSON object: a sequence of <<key, number>> members.
\* json.dumps writes it as text, one symbol per token.
Digits == <<"0", "1", "2", "3", "4", "5", "6", "7", "8", "9">>
Number(digit) == CHOOSE n \in 0..9 : Digits[n + 1] = digit

RECURSIVE dump_members(_)
dump_members(data) ==
    IF data = <<>> THEN <<>>
    ELSE <<data[1][1], ":", Digits[data[1][2] + 1]>>
            \o (IF Len(data) > 1 THEN <<",">> ELSE <<>>)
            \o dump_members(Tail(data))

json_dumps(data) == <<"{">> \o dump_members(data) \o <<"}">>

RECURSIVE load_members(_)
load_members(tokens) ==
    IF tokens = <<>> THEN <<>>
    ELSE <<<<tokens[1], Number(tokens[3])>>>>
            \o load_members(SubSeq(tokens, 5, Len(tokens)))

json_loads(text) == load_members(SubSeq(text, 2, Len(text) - 1))

\* datetime.isoformat and datetime.fromisoformat
isoformat(time) == <<"T", time>>
fromisoformat(text) == text[2]

\* Optional[Dict]: a dict, or None.
Some(data) == [none |-> FALSE, dict |-> data]
NoDict == [none |-> TRUE, dict |-> <<>>]
truthy_dict(optional) == ~optional.none /\ optional.dict # <<>>

BinderException == "BinderException"
ConstraintException == "ConstraintException"
HTTPStatusError == "HTTPStatusError"

\* ttl_seconds of set: None is 0 here, and `ttl_seconds or self.default_ttl`.
NoTtl == 0

\* APICache.get: the table after the call and what the call returned.
get(table, endpoint, now) ==
    LET cache_key == _generate_key(endpoint)
        result == {r \in table.rows : r.cache_key = cache_key}
    IN  IF result = {} THEN [table |-> table, result |-> Returned(NoDict)]
        ELSE LET row == CHOOSE r \in result : TRUE
             IN  IF now > fromisoformat(row.expires_at)
                 THEN [table |-> [table EXCEPT !.rows = @ \ result],
                       result |-> Returned(NoDict)]
                 ELSE [table |-> table,
                       result |-> Returned(Some(json_loads(row.response_data)))]

\* APICache.set over a table that has the columns the INSERT names: the
\* upsert on cache_key.
set_any_schema(table, endpoint, data, ttl_seconds, now) ==
    LET cache_key == _generate_key(endpoint)
        ttl == IF ttl_seconds # NoTtl THEN ttl_seconds ELSE DefaultTtl
        inserted == [cache_key |-> cache_key, endpoint |-> endpoint,
                     response_data |-> json_dumps(data),
                     cached_at |-> isoformat(now),
                     expires_at |-> isoformat(now + ttl)]
    IN  [table |-> [table EXCEPT !.rows =
                       {r \in @ : r.cache_key # cache_key} \cup {inserted}],
         result |-> Returned(NoDict)]

\* APICache.set: the INSERT names the columns cache_key, endpoint,
\* response_data, cached_at, expires_at.  The statement does not bind when
\* the table lacks one of them, and a NOT NULL column of the table it gives
\* no value breaks the constraint.
set(table, endpoint, data, ttl_seconds, now) ==
    IF ~(APICacheColumns \subseteq table.columns)
    THEN [table |-> table, result |-> Raised(BinderException)]
    ELSE IF table.columns # APICacheColumns
    THEN [table |-> table, result |-> Raised(ConstraintException)]
    ELSE set_any_schema(table, endpoint, data, ttl_seconds, now)

\* The answer of the API to a request, after the retries: a JSON object with
\* status 200, or an error status.
Ok(data) == [status |-> 200, data |-> data]
Failed429 == [status |-> 429, data |-> <<>>]

\* APIClient._make_request: the table after the call, what the call returned
\* and whether it asked the API.
_make_request(table, endpoint, use_cache, response, now) ==
    LET should_cache == use_cache
        looked == IF should_cache THEN get(table, endpoint, now)
                  ELSE [table |-> table, result |-> Returned(NoDict)]
        cached_data == looked.result.value
    IN  IF should_cache /\ truthy_dict(cached_data)
        THEN [table |-> looked.table, result |-> Returned(cached_data.dict),
              requested |-> FALSE]
        ELSE IF response.status # 200
        THEN [table |-> looked.table, result |-> Raised(HTTPStatusError),
              requested |-> TRUE]
        ELSE IF ~should_cache
        THEN [table |-> looked.table, result |-> Returned(response.data),
              requested |-> TRUE]
        ELSE LET stored == set(looked.table, endpoint, response.data, NoTtl, now)
             IN  [table |-> stored.table,
                  result |-> IF stored.result.raised # None THEN stored.result
                             ELSE Returned(response.data),
                  requested |-> TRUE]

\* ------------------------------------------------------------ the inputs
\* A match is between two different teams.
MatchFeed(scores) ==
    {m \in {MatchRow(i, h, a, sc[1], sc[2], st) :
                i \in MatchIds, h \in TeamIds, a \in TeamIds,
                sc \in scores, st \in Statuses} :
        m.home_team_id # m.away_team_id}

Nullable(n) == {NULL} \cup 0..n

StandingsFeed ==
    {StandingsRow(t, pl, pts) :
        t \in TeamIds, pl \in Nullable(MaxPlayed), pts \in Nullable(MaxPoints)}

\* The tables a set of rows can form: at most one row per primary key.
RECURSIVE MatchTables(_, _)
MatchTables(rows, ids) ==
    IF ids = {} THEN {{}}
    ELSE LET k == CHOOSE x \in ids : TRUE
             rest == MatchTables(rows, ids \ {k})
         IN  rest \cup {t \cup {r} : t \in rest, r \in {x \in rows : x.id = k}}

RECURSIVE StandingsTables(_, _)
StandingsTables(rows, ids) ==
    IF ids = {} THEN {{}}
    ELSE LET k == CHOOSE x \in ids : TRUE
             rest == StandingsTables(rows, ids \ {k})
         IN  rest \cup {t \cup {r} : t \in rest, r \in {x \in rows : x.team_id = k}}

\* No call has returned yet.  A query leaves the store as it is, so a second
\* query in the same behaviour would reach nothing a first one does not.
NoCallYet == ret.op = "none"

\* ------------------------------------------- the calculator on any store
InitCalc ==
    /\ teams = TeamIds
    /\ matches \in MatchTables(MatchFeed({<<0, 0>>}), MatchIds)
    /\ standings \in StandingsTables(StandingsFeed, TeamIds)
    /\ solkoff_coefficients = {}
    /\ ret = [op |-> "none", team |-> 0, value |-> 0]
    /\ updates = [p \in Threads |-> NoUpdate]
    /\ api_cache = ConstructedCache
    /\ utcnow = 0

CalculateSolkoff(team_id) ==
    /\ NoCallYet
    /\ ret' = [op |-> "calculate_solkoff", team |-> team_id,
               value |-> calculate_solkoff(matches, standings, team_id)]
    /\ UNCHANGED <<api_cache, utcnow, teams, matches, standings, solkoff_coefficients, updates>>

NextCalc == \E t \in TeamIds : CalculateSolkoff(t)

SpecCalc == InitCalc /\ [][NextCalc]_vars

\* --------------------------------------------- the analyzer on any store
InitAnalyzer ==
    /\ teams = TeamIds
    /\ matches \in MatchTables(MatchFeed(Nullable(MaxScore) \X Nullable(MaxScore)),
                               MatchIds)
    /\ standings = {}
    /\ solkoff_coefficients = {}
    /\ ret = [op |-> "none", team |-> 0, value |-> 0]
    /\ updates = [p \in Threads |-> NoUpdate]
    /\ api_cache = ConstructedCache
    /\ utcnow = 0

GetOpponents(team_id) ==
    /\ NoCallYet
    /\ ret' = [op |-> "get_opponents", team |-> team_id,
               value |-> get_opponents(matches, team_id)]
    /\ UNCHANGED <<api_cache, utcnow, teams, matches, standings, solkoff_coefficients, updates>>

FindCommonOpponents(team1_id, team2_id) ==
    /\ NoCallYet
    /\ ret' = [op |-> "find_common_opponents",
               team1 |-> team1_id, team2 |-> team2_id,
               value |-> find_common_opponents(matches, team1_id, team2_id)]
    /\ UNCHANGED <<api_cache, utcnow, teams, matches, standings, solkoff_coefficients, updates>>

CalculateLeagueTable(team1_id, team2_id, common_opponents) ==
    /\ NoCallYet
    /\ ret' = [op |-> "calculate_league_table",
               team1 |-> team1_id, team2 |-> team2_id,
               common_opponents |-> common_opponents,
               value |-> calculate_league_table(matches, team1_id, team2_id,
                                                common_opponents)]
    /\ UNCHANGED <<api_cache, utcnow, teams, matches, standings, solkoff_coefficients, updates>>

NextAnalyzer ==
    \/ \E t \in TeamIds : GetOpponents(t)
    \/ \E t1 \in TeamIds, t2 \in TeamIds : FindCommonOpponents(t1, t2)
    \/ \E t1 \in TeamIds, t2 \in TeamIds, co \in SUBSET TeamIds :
            CalculateLeagueTable(t1, t2, co)

SpecAnalyzer == InitAnalyzer /\ [][NextAnalyzer]_vars

\* ------------------------------------------- the analysis on any store
\* The matches of the stores the analysis is run on: finished and scored
\* (SpecAnalyzer has the unscored and the unfinished ones).
LeagueMatchIds == 1..LeagueMatches

LeagueFeed ==
    {m \in {MatchRow(i, h, a, sc[1], sc[2], "FINISHED") :
                i \in LeagueMatchIds, h \in TeamIds, a \in TeamIds,
                sc \in {<<0, 0>>, <<1, 0>>}} :
        m.home_team_id # m.away_team_id}

\* The store keeps the foreign keys: the teams of a match are in teams.
InitLeague ==
    /\ teams \in SUBSET TeamIds
    /\ matches \in {M \in MatchTables(LeagueFeed, LeagueMatchIds) :
                      \A m \in M : m.home_team_id \in teams /\ m.away_team_id \in teams}
    /\ standings = {}
    /\ solkoff_coefficients = {}
    /\ ret = [op |-> "none", team |-> 0, value |-> 0]
    /\ updates = [p \in Threads |-> NoUpdate]
    /\ api_cache = ConstructedCache
    /\ utcnow = 0

CalculateLeagueTableResult(team1_id, team2_id, common_opponents) ==
    /\ NoCallYet
    /\ \E result \in calculate_league_table_results(matches, standings,
                        solkoff_coefficients, teams,
                        team1_id, team2_id, common_opponents) :
          ret' = [op |-> "calculate_league_table",
                  team1 |-> team1_id, team2 |-> team2_id,
                  common_opponents |-> common_opponents,
                  value |-> result]
    /\ UNCHANGED <<api_cache, utcnow, teams, matches, standings, solkoff_coefficients, updates>>

AnalyzePair(team1_id, team2_id) ==
    /\ NoCallYet
    /\ \E result \in analyze_pair(matches, standings, solkoff_coefficients,
                                  teams, team1_id, team2_id) :
          ret' = [op |-> "analyze_pair",
                  team1 |-> team1_id, team2 |-> team2_id,
                  value |-> result]
    /\ UNCHANGED <<api_cache, utcnow, teams, matches, standings, solkoff_coefficients, updates>>

NextLeague ==
    \/ \E t1 \in TeamIds, t2 \in TeamIds, co \in SUBSET TeamIds :
            CalculateLeagueTableResult(t1, t2, co)
    \/ \E t1 \in TeamIds, t2 \in TeamIds : AnalyzePair(t1, t2)

SpecLeague == InitLeague /\ [][NextLeague]_vars

\* --------------------------------- the win probability on any strengths
\* The stored coefficients of the stores the probability is computed on, in
\* thousandths: 0.0, 0.5, ..
WinCoefficients == {500 * k : k \in 0..MaxCoefficient}

\* The two teams that have standings rows and coefficients there.
WinTeamIds == {t \in TeamIds : t <= 2}

RECURSIVE CoefficientTables(_)
CoefficientTables(ids) ==
    IF ids = {} THEN {{}}
    ELSE LET k == CHOOSE x \in ids : TRUE
             rest == CoefficientTables(ids \ {k})
         IN  rest \cup {t \cup {CoefficientRow(k, v)} : t \in rest, v \in WinCoefficients}

\* The statistics a caller passes: none ({}), or a block with the
\* strengthPerGame of a mini-league.
HistoricalStats == {<<>>, [strengthPerGame |-> <<1, 2>>]}

InitWin ==
    /\ teams = TeamIds
    /\ matches = {}
    /\ standings \in StandingsTables(StandingsFeed, WinTeamIds)
    /\ solkoff_coefficients \in CoefficientTables(WinTeamIds)
    /\ ret = [op |-> "none", team |-> 0, value |-> 0]
    /\ updates = [p \in Threads |-> NoUpdate]
    /\ api_cache = ConstructedCache
    /\ utcnow = 0

\* The end of calculate_league_table: the two main strengths are fetched and
\* _calculate_win_probability is called with them.
CalculateWinProbability(team1_id, team2_id, team1_stats, team2_stats) ==
    /\ NoCallYet
    /\ LET team1_main_strength ==
               _get_main_league_strength(standings, solkoff_coefficients, team1_id)
           team2_main_strength ==
               _get_main_league_strength(standings, solkoff_coefficients, team2_id)
       IN  \E win_probability \in
                 _calculate_win_probability(team1_stats, team2_stats,
                     team1_main_strength, team2_main_strength) :
              ret' = [op |-> "_calculate_win_probability",
                      team1 |-> team1_id, team2 |-> team2_id,
                      main |-> <<team1_main_strength, team2_main_strength>>,
                      historical |-> <<historical_strength(team1_stats),
                                       historical_strength(team2_stats)>>,
                      value |-> win_probability]
    /\ UNCHANGED <<api_cache, utcnow, teams, matches, standings, solkoff_coefficients, updates>>

NextWin ==
    \E t1 \in TeamIds, t2 \in TeamIds, s1 \in HistoricalStats, s2 \in HistoricalStats :
        CalculateWinProbability(t1, t2, s1, s2)

SpecWin == InitWin /\ [][NextWin]_vars

\* ------------------------------------------- the classifier on any store
\* The texts the stage, round and group_name columns hold in the stores the
\* classifier is run on: NULL, the empty string, the values of the API, and
\* spellings in lower case and with a dash.
GROUP_STAGE == <<"G", "R", "O", "U", "P", "_", "S", "T", "A", "G", "E">>
QUARTER_FINALS == QUARTER_FINAL \o <<"S">>
SEMI_FINALS == SEMI_FINAL \o <<"S">>
PlayOffsDashed == <<"P", "l", "a", "y", "-", "o", "f", "f", "s">>
FinalLower == <<"f", "i", "n", "a", "l">>
GroupA == <<"G", "r", "o", "u", "p", " ", "A">>

RoundTexts == {NullText, <<>>, PLAYOFFS, PlayOffsDashed, LAST_16,
               QUARTER_FINALS, SEMI_FINALS, FinalLower}
StageTexts == {NullText, LEAGUE_STAGE, GROUP_STAGE, KNOCKOUT_OUT,
               QUARTER_FINALS, FINAL}
GroupNames == {NullText, <<>>, GroupA}

\* matchday is a nullable INTEGER.
Matchdays == {NULL, 1} \cup (6..MaxMatchday)

\* One match of teams 1 and 2 with any content of the columns, and at most
\* one more match, of the same two teams or of another pair.
FirstLegs ==
    {KnockoutMatchRow(1, 1, 2, st, md, stage, round, group_name) :
        st \in {"FINISHED", "POSTPONED"}, md \in Matchdays,
        stage \in StageTexts, round \in RoundTexts, group_name \in GroupNames}

SecondLegs ==
    {KnockoutMatchRow(2, teams_of[1], teams_of[2], "TIMED", md, stage,
                      NullText, NullText) :
        teams_of \in {<<2, 1>>, <<1, 3>>}, md \in {NULL, 11},
        stage \in {GROUP_STAGE, SEMI_FINALS}}

InitStage ==
    /\ teams = TeamIds
    /\ matches \in {{first} : first \in FirstLegs}
                   \cup {{first, second} : first \in FirstLegs, second \in SecondLegs}
    /\ standings = {}
    /\ solkoff_coefficients = {}
    /\ ret = [op |-> "none", team |-> 0, value |-> 0]
    /\ updates = [p \in Threads |-> NoUpdate]
    /\ api_cache = ConstructedCache
    /\ utcnow = 0

\* The calls of this specification are made at one time, and no win
\* probability fails in them.
StageNow == Now(2026, 11, 4, 12)

GetPlayoffPairs(now) ==
    /\ NoCallYet
    /\ ret' = [op |-> "get_playoff_pairs", now |-> now,
               result |-> get_playoff_pairs(matches, teams, now)]
    /\ UNCHANGED <<api_cache, utcnow, teams, matches, standings, solkoff_coefficients, updates>>

GetPairsByStage(stage, now, failing) ==
    /\ NoCallYet
    /\ \E result \in get_pairs_by_stage(matches, standings, solkoff_coefficients,
                                        teams, stage, now, failing) :
          ret' = [op |-> "get_pairs_by_stage", stage |-> stage, now |-> now,
                  failing |-> failing, result |-> result]
    /\ UNCHANGED <<api_cache, utcnow, teams, matches, standings, solkoff_coefficients, updates>>

\* GET /api/tournament/current-stage answers 500 when the call raises.
GetCurrentStage ==
    /\ NoCallYet
    /\ ret' = [op |-> "get_current_stage",
               result |-> get_current_stage(matches)]
    /\ UNCHANGED <<api_cache, utcnow, teams, matches, standings, solkoff_coefficients, updates>>

NextStage ==
    \/ GetPlayoffPairs(StageNow)
    \/ \E stage \in StageNames \cup {"LEAGUE"} : GetPairsByStage(stage, StageNow, {})
    \/ GetCurrentStage

SpecStage == InitStage /\ [][NextStage]_vars

\* ------------------------------------------- the pairs on any store
\* The times of the calls: a midnight, a midday, and a 29 February.
Nows == {Now(2026, 11, 4, 0), Now(2026, 11, 4, 12), Now(2028, 2, 29, 12)}

\* The dates of the stores: no date, texts that are no date, a date years
\* back, dates at and around now - 180 days and now + 2 years of the times
\* above, and dates of the season, one of them with a zone.
PairDates ==
    {NullDate, NotADate(""), NotADate("TBD"),
     DateText(2019, 5, 1, 0, "Z"),
     DateText(2026, 5, 8, 0, "Z"),
     DateText(2026, 5, 8, 12, "Z"),
     DateText(2026, 11, 10, 12, "Z"),
     DateText(2026, 11, 10, 13, "+02:00"),
     DateText(2028, 11, 4, 0, "Z"),
     DateText(2028, 11, 4, 12, "")}

PairMatchdays == {NULL, 7, 8}

\* One knockout match of teams 1 and 2, and at most one more match, of the
\* same two teams or of another pair.
DatedFirstLegs ==
    {DatedMatchRow(1, 1, 2, "FINISHED", md, stage, round, NullText, date) :
        md \in PairMatchdays, stage \in {NullText, KNOCKOUT_OUT},
        round \in {NullText, PLAYOFFS}, date \in PairDates}

DatedSecondLegs ==
    {DatedMatchRow(2, teams_of[1], teams_of[2], "TIMED", md, KNOCKOUT_OUT,
                   NullText, NullText, date) :
        teams_of \in {<<2, 1>>, <<1, 3>>}, md \in PairMatchdays,
        date \in PairDates}

InitPairs ==
    /\ teams = TeamIds
    /\ matches \in {{first} : first \in DatedFirstLegs}
                   \cup {{first, second} : first \in DatedFirstLegs,
                                           second \in DatedSecondLegs}
    /\ standings = {}
    /\ solkoff_coefficients = {}
    /\ ret = [op |-> "none", team |-> 0, value |-> 0]
    /\ updates = [p \in Threads |-> NoUpdate]
    /\ api_cache = ConstructedCache
    /\ utcnow = 0

IsValidDate(date_str, now) ==
    /\ NoCallYet
    /\ ret' = [op |-> "_is_valid_date", date |-> date_str, now |-> now,
               value |-> _is_valid_date(date_str, now)]
    /\ UNCHANGED <<api_cache, utcnow, teams, matches, standings, solkoff_coefficients, updates>>

NextPairs ==
    \/ \E now \in Nows : GetPlayoffPairs(now)
    \/ \E stage \in {"KNOCKOUT_PLAYOFF", "FINAL"}, now \in Nows,
          failing \in SUBSET {<<1, 2>>, <<1, 3>>} :
            GetPairsByStage(stage, now, failing)
    \/ \E date_str \in PairDates, now \in Nows : IsValidDate(date_str, now)
    \/ GetCurrentStage

SpecPairs == InitPairs /\ [][NextPairs]_vars

\* ------------------------------------------- the store and its passes
\* What the feed of an update brings in this specification: finished, scored
\* matches and standings rows of teams that played once.  (The calculator is
\* checked on every store of the bounds under SpecCalc.)
PassMatchFeed == {m \in MatchFeed({<<0, 0>>}) : m.status = "FINISHED"}
PassStandingsFeed == {r \in StandingsFeed : r.played = 1 /\ r.points # NULL}

Init ==
    /\ teams = {}
    /\ matches = {}
    /\ standings = {}
    /\ solkoff_coefficients = {}
    /\ ret = [op |-> "none", team |-> 0, value |-> 0]
    /\ updates = [p \in Threads |-> NoUpdate]
    /\ api_cache = ConstructedCache
    /\ utcnow = 0

\* sync_teams, for a feed that names one team.
SyncTeams(team_id) ==
    /\ teams' = teams \cup {team_id}
    /\ ret' = [op |-> "sync_all"]
    /\ UNCHANGED <<api_cache, utcnow, matches, standings, solkoff_coefficients, updates>>

\* sync_matches, for a feed of one match.  A row whose teams are not in the
\* teams table breaks the foreign key: the insert raises and is skipped.
SyncMatches(row) ==
    /\ matches' = IF row.home_team_id \in teams /\ row.away_team_id \in teams
                  THEN upsert_match(matches, row)
                  ELSE matches
    /\ ret' = [op |-> "sync_all"]
    /\ UNCHANGED <<api_cache, utcnow, teams, standings, solkoff_coefficients, updates>>

\* sync_standings, for a feed of one table entry.
SyncStandings(row) ==
    /\ standings' = IF row.team_id \in teams
                    THEN upsert_standings(standings, row)
                    ELSE standings
    /\ ret' = [op |-> "sync_all"]
    /\ UNCHANGED <<api_cache, utcnow, teams, matches, solkoff_coefficients, updates>>

\* calculate_all.  Every execute of the pass is stored as it is made (the
\* connection opens no transaction), so a pass that raises leaves the rows
\* written up to there.  pass counts the completed passes in a row, up to 2.
CalculateAll(order, fail) ==
    LET written == IF fail = 0 THEN Len(order) ELSE fail - 1
        again == ret.op = "calculate_all" /\ ret.outcome = "returned"
    IN  /\ solkoff_coefficients' =
              calculate_all_writes(matches, standings, solkoff_coefficients,
                                   order, written)
        /\ ret' = [op |-> "calculate_all",
                   outcome |-> IF fail = 0 THEN "returned" ELSE "raised",
                   failed |-> IF fail = 0 THEN 0 ELSE order[fail],
                   calls |-> calculate_all_calls(order, fail),
                   pass |-> IF fail = 0 /\ again THEN 2 ELSE 1]
        /\ UNCHANGED <<api_cache, utcnow, teams, matches, standings, updates>>

Next ==
    \/ \E t \in TeamIds : SyncTeams(t)
    \/ \E row \in PassMatchFeed : SyncMatches(row)
    \/ \E row \in PassStandingsFeed : SyncStandings(row)
    \/ \E order \in team_rows(teams) : \E fail \in 0..Len(order) :
            CalculateAll(order, fail)

Spec == Init /\ [][Next]_vars

\* ------------------------------------------------ the update passes
\* The fixtures of the store the updates run on: team i met team i + 1.
Fixtures ==
    {MatchRow(i, i, i + 1, 0, 0, "FINISHED") : i \in {j \in MatchIds : j + 1 \in TeamIds}}

InitSched ==
    /\ teams = TeamIds
    /\ matches = Fixtures
    /\ standings = {}
    /\ solkoff_coefficients = {}
    /\ ret = [op |-> "none", team |-> 0, value |-> 0]
    /\ updates = [p \in Threads |-> NoUpdate]
    /\ api_cache = ConstructedCache
    /\ utcnow = 0

\* update_data is entered: the interval of the job has passed, or
\* trigger_update is called.  Nothing is held or awaited to enter.
StartUpdate(p) ==
    /\ updates[p].pc = "idle"
    /\ updates' = [updates EXCEPT ![p] = [NoUpdate EXCEPT !.pc = "sync_all"]]
    /\ UNCHANGED <<api_cache, utcnow, teams, matches, standings, solkoff_coefficients, ret>>

\* self.data_service.sync_all(self.competition_id): the writes of the sync,
\* here the standings entry the feed brings.
SyncAll(p, row) ==
    /\ updates[p].pc = "sync_all"
    /\ standings' = upsert_standings(standings, row)
    /\ updates' = [updates EXCEPT ![p].pc = "calculate_all",
                                  ![p].calls = Append(@, "sync_all")]
    /\ UNCHANGED <<api_cache, utcnow, teams, matches, solkoff_coefficients, ret>>

\* sync_all raises (the request of the feed fails): the statement after it in
\* the try is skipped, the except clause logs, and update_data returns.
after_failed_sync_goes_on(update) == [update EXCEPT !.pc = "calculate_all", !.failed = TRUE]

after_failed_sync(update) == [update EXCEPT !.pc = "idle", !.failed = TRUE]

SyncAllRaises(p) ==
    /\ updates[p].pc = "sync_all"
    /\ updates' = [updates EXCEPT ![p] =
                     after_failed_sync([@ EXCEPT !.calls = Append(@, "sync_all")])]
    /\ UNCHANGED <<api_cache, utcnow, teams, matches, standings, solkoff_coefficients, ret>>

\* calculate_all: teams = self.db.fetchall("SELECT id FROM teams")
FetchTeams(p, order) ==
    /\ updates[p].pc = "calculate_all"
    /\ updates' = [updates EXCEPT ![p] =
                     [@ EXCEPT !.pc = IF Len(order) = 0 THEN "commit" ELSE "execute",
                               !.order = order, !.next = 1,
                               !.calls = Append(@, "calculate_all")]]
    /\ UNCHANGED <<api_cache, utcnow, teams, matches, standings, solkoff_coefficients, ret>>

\* calculate_all: one turn of the loop, calculate_solkoff and the upsert.
ExecuteWrite(p) ==
    /\ updates[p].pc = "execute"
    /\ LET u == updates[p]
           team_id == u.order[u.next]
       IN  /\ solkoff_coefficients' =
                 upsert_coefficient(solkoff_coefficients,
                     CoefficientRow(team_id,
                         calculate_solkoff(matches, standings, team_id)))
           /\ updates' = [updates EXCEPT ![p] =
                 [u EXCEPT !.next = u.next + 1,
                           !.pc = IF u.next = Len(u.order) THEN "commit"
                                  ELSE "execute"]]
    /\ UNCHANGED <<api_cache, utcnow, teams, matches, standings, ret>>

\* calculate_all: self.db.commit(), and update_data returns.
Commit(p) ==
    /\ updates[p].pc = "commit"
    /\ updates' = [updates EXCEPT ![p] =
                     [@ EXCEPT !.pc = "idle", !.order = <<>>, !.next = 0]]
    /\ UNCHANGED <<api_cache, utcnow, teams, matches, standings, solkoff_coefficients, ret>>

NextSched ==
    \E p \in Threads :
        \/ StartUpdate(p)
        \/ \E row \in PassStandingsFeed : SyncAll(p, row)
        \/ SyncAllRaises(p)
        \/ \E order \in team_rows(teams) : FetchTeams(p, order)
        \/ ExecuteWrite(p)
        \/ Commit(p)

SpecSched == InitSched /\ [][NextSched]_vars

\* ------------------------------------------------ the cache and its calls
Endpoints == {"competitions/CL/teams", "competitions/CL/standings"}
Responses == {<<<<"count", 0>>>>, <<<<"count", 1>>>>, <<<<"count", 1>>, <<"season", 2>>>>}
Times == 0..MaxClock

InitCache ==
    /\ teams = {}
    /\ matches = {}
    /\ standings = {}
    /\ solkoff_coefficients = {}
    /\ ret = [op |-> "none", endpoint |-> "", data |-> <<>>, now |-> 0,
              result |-> Returned(NoDict), requested |-> FALSE]
    /\ updates = [p \in Threads |-> NoUpdate]
    /\ api_cache = ConstructedCache
    /\ utcnow = 0

\* Time passes.
Tick ==
    /\ utcnow < MaxClock
    /\ utcnow' = utcnow + 1
    /\ UNCHANGED <<teams, matches, standings, solkoff_coefficients, ret, updates, api_cache>>

\* cache.set(endpoint, data)
CacheSet(endpoint, data) ==
    LET call == set(api_cache, endpoint, data, NoTtl, utcnow)
    IN  /\ api_cache' = call.table
        /\ ret' = [op |-> "set", endpoint |-> endpoint, data |-> data,
                   now |-> utcnow, result |-> call.result,
                   requested |-> FALSE]
        /\ UNCHANGED <<teams, matches, standings, solkoff_coefficients, updates, utcnow>>

\* cache.get(endpoint)
CacheGet(endpoint) ==
    LET call == get(api_cache, endpoint, utcnow)
    IN  /\ api_cache' = call.table
        /\ ret' = [op |-> "get", endpoint |-> endpoint, data |-> <<>>,
                   now |-> utcnow, result |-> call.result,
                   requested |-> FALSE]
        /\ UNCHANGED <<teams, matches, standings, solkoff_coefficients, updates, utcnow>>

\* api_client._make_request(endpoint), the client built with the cache and
\* use_cache=True as the scheduler builds it, or without caching.
MakeRequest(endpoint, use_cache, response) ==
    LET call == _make_request(api_cache, endpoint, use_cache, response, utcnow)
    IN  /\ api_cache' = call.table
        /\ ret' = [op |-> IF use_cache THEN "_make_request" ELSE "_make_request_uncached",
                   endpoint |-> endpoint, data |-> response.data,
                   now |-> utcnow, result |-> call.result,
                   requested |-> call.requested]
        /\ UNCHANGED <<teams, matches, standings, solkoff_coefficients, updates, utcnow>>

NextCache ==
    \/ Tick
    \/ \E endpoint \in Endpoints : \E data \in Responses : CacheSet(endpoint, data)
    \/ \E endpoint \in Endpoints : CacheGet(endpoint)
    \/ \E endpoint \in Endpoints : \E use_cache \in BOOLEAN :
            \E response \in {Ok(data) : data \in Responses} \cup {Failed429} :
                MakeRequest(endpoint, use_cache, response)

SpecCache == InitCache /\ [][NextCache]_vars

\* ------------------------------------------------------------------- C1
\* The opponents T faced in FINISHED matches whose standings row has
\* non-null points and played > 0.
SurvivingOpponents(M, S, t) ==
    {o \in TeamIds :
        /\ \E m \in M : /\ m.status = "FINISHED"
                        /\ \/ m.home_team_id = t /\ m.away_team_id = o
                           \/ m.away_team_id = t /\ m.home_team_id = o
        /\ \E r \in S : /\ r.team_id = o
                        /\ r.points # NULL /\ r.played # NULL /\ r.played > 0}

\* A common multiple of every played > 0 of the feed.
PlayedMultiple ==
    LET f[i \in 0..MaxPlayed] == IF i = 0 THEN 1 ELSE i * f[i - 1]
    IN  f[MaxPlayed]

\* PlayedMultiple * (sum of points/played over the opponents in surv).
ScaledPPGSum(S, surv) ==
    LET row(o) == CHOOSE r \in S : r.team_id = o
        f[i \in 0..NumTeams] ==
            IF i = 0 THEN 0
            ELSE f[i - 1] + (IF i \in surv
                             THEN row(i).points * (PlayedMultiple \div row(i).played)
                             ELSE 0)
    IN  f[NumTeams]

\* v (in thousandths) is a thousandth nearest to n / d.
NearestThousandth(v, n, d) ==
    /\ 2 * (1000 * n - v * d) <= d
    /\ 2 * (v * d - 1000 * n) <= d

WithoutUnscored(M) ==
    {m \in M : ~(m.status = "FINISHED"
                  /\ (m.home_score = NULL \/ m.away_score = NULL))}

\* C2: a FINISHED match with a null home_score or away_score is excluded
\* from every aggregation: the opponent set of get_opponents, the common
\* opponents of find_common_opponents and the mini-league statistics of
\* calculate_league_table are what they are without such matches.
C2_UnscoredFinishedMatchesAreExcluded ==
    /\ ret.op = "get_opponents" =>
          ret.value = get_opponents(WithoutUnscored(matches), ret.team)
    /\ ret.op = "find_common_opponents" =>
          ret.value = find_common_opponents(WithoutUnscored(matches),
                                            ret.team1, ret.team2)
    /\ ret.op = "calculate_league_table" =>
          ret.value = calculate_league_table(WithoutUnscored(matches),
                                             ret.team1, ret.team2,
                                             ret.common_opponents)

\* ------------------------------------------------------------------- C3
CompletedPass == ret.op = "calculate_all" /\ ret.outcome = "returned"

\* C3: calculate_all is idempotent: a pass that directly follows a completed
\* pass (teams, matches and standings unchanged) leaves every stored
\* coefficient as the first pass left it.
C3_CalculateAllIdempotent ==
    [][(CompletedPass /\ CompletedPass') =>
            solkoff_coefficients' = solkoff_coefficients]_vars

\* A second pass in a row, over a table that holds a non-zero coefficient.
C3_Witness ==
    /\ CompletedPass
    /\ ret.pass = 2
    /\ \E r \in solkoff_coefficients : r.solkoff_value > 0

\* ------------------------------------------------------------------- C4
\* C4: solkoff_coefficients never holds two rows of one team, and right
\* after a completed pass it holds a row for every team of the teams table,
\* with the value that pass computed.
C4_OneRowPerTeamWithThePassValue ==
    /\ \A r1, r2 \in solkoff_coefficients : r1.team_id = r2.team_id => r1 = r2
    /\ CompletedPass =>
          \A t \in teams :
              CoefficientRow(t, calculate_solkoff(matches, standings, t))
                  \in solkoff_coefficients

\* A completed pass over all the teams that stored two different values.
C4_Witness ==
    /\ CompletedPass
    /\ teams = TeamIds
    /\ \E r1, r2 \in solkoff_coefficients : r1.solkoff_value # r2.solkoff_value

\* ------------------------------------------------------------------- C5
\* C5: a failure while one team is processed (here: the write of team
\* ret.failed raises) does not abort the pass: the coefficient of every other
\* team is still computed, written, and committed after its write.
C5_FailureOfOneTeamDoesNotAbortThePass ==
    ret.op = "calculate_all" =>
        \A t \in teams \ {ret.failed} :
            /\ CoefficientRow(t, calculate_solkoff(matches, standings, t))
                  \in solkoff_coefficients
            /\ \E i, j \in DOMAIN ret.calls :
                  i < j /\ ret.calls[i] = ExecuteCall(t) /\ ret.calls[j] = CommitCall

\* ------------------------------------------------------------------- C6
\* C6: a full pass issues exactly one write per team of the teams table and
\* exactly one commit, the commit after all the writes.
C6_OneWritePerTeamThenOneCommit ==
    CompletedPass =>
        LET n == Len(ret.calls)
        IN  /\ n = Cardinality(teams) + 1
            /\ ret.calls[n] = CommitCall
            /\ \A i \in 1..(n - 1) : ret.calls[i].call = "execute"
            /\ \A t \in teams :
                  Cardinality({i \in 1..n : ret.calls[i] = ExecuteCall(t)}) = 1

\* A completed pass over all the teams.
C6_Witness ==
    /\ CompletedPass
    /\ teams = TeamIds
    /\ Len(ret.calls) > 2

\* ------------------------------------------------------------------- C7
\* A thread is in the middle of a pass from its first write (sync_all) to its
\* commit.
MidPass(p) == updates[p].pc \in {"calculate_all", "execute", "commit"}

\* C7: update passes never interleave: the interval job and a triggered
\* update are serialized, so no pass writes between the first write and the
\* commit of another.
C7_UpdatePassesAreSerialized ==
    \A p, q \in Threads : p # q => ~(MidPass(p) /\ MidPass(q))

\* ------------------------------------------------------------------- C8
\* C8: find_common_opponents is symmetric: the set returned for (a, b) is
\* the set returned for (b, a).
C8_CommonOpponentsSymmetric ==
    ret.op = "find_common_opponents" =>
        ret.value = find_common_opponents(matches, ret.team2, ret.team1)

\* Two different teams that share an opponent.
C8_Witness ==
    /\ ret.op = "find_common_opponents"
    /\ ret.team1 # ret.team2
    /\ ret.value # {}

\* ------------------------------------------------------------------- C9
\* The teams t met in a FINISHED match, at home or away.
FacedOpponents(M, t) ==
    {o \in TeamIds :
        \E m \in M : /\ m.status = "FINISHED"
                     /\ \/ m.home_team_id = t /\ m.away_team_id = o
                        \/ m.away_team_id = t /\ m.home_team_id = o}

\* C9: find_common_opponents(t1, t2) is exactly the intersection of the
\* opponents t1 faced and the opponents t2 faced in FINISHED matches, and
\* holds neither t1 nor t2 (so it is empty when they share no opponent).
C9_CommonOpponentsIsIntersection ==
    ret.op = "find_common_opponents" =>
        /\ ret.value = FacedOpponents(matches, ret.team1)
                         \cap FacedOpponents(matches, ret.team2)
        /\ ret.team1 \notin ret.value
        /\ ret.team2 \notin ret.value

\* t1 and t2 played each other, and t1 faced a second opponent.
C9_Witness ==
    /\ ret.op = "find_common_opponents"
    /\ ret.team1 # ret.team2
    /\ ret.team2 \in FacedOpponents(matches, ret.team1)
    /\ Cardinality(FacedOpponents(matches, ret.team1)) = 2
    /\ ret.value = {}

\* ------------------------------------------------------------------ C10
\* The FINISHED matches with both endpoints in G, and those of them that
\* carry both scores.
FinishedWithin(M, G) ==
    {m \in M : m.status = "FINISHED" /\ m.home_team_id \in G /\ m.away_team_id \in G}

ScoredWithin(M, G) ==
    {m \in FinishedWithin(M, G) : m.home_score # NULL /\ m.away_score # NULL}

MatchesOf(ms, x) == {m \in ms : m.home_team_id = x \/ m.away_team_id = x}

OwnScore(m, x) == IF m.home_team_id = x THEN m.home_score ELSE m.away_score
OtherScore(m, x) == IF m.home_team_id = x THEN m.away_score ELSE m.home_score

\* The sum of Own/OtherScore over the matches of x in ms.
GoalsSum(ms, x, own) ==
    LET f[i \in 0..MaxMatches] ==
            IF i = 0 THEN 0
            ELSE f[i - 1] + (IF \E m \in MatchesOf(ms, x) : m.id = i
                             THEN LET m == CHOOSE y \in MatchesOf(ms, x) : y.id = i
                                  IN  IF own THEN OwnScore(m, x) ELSE OtherScore(m, x)
                             ELSE 0)
    IN  f[MaxMatches]

\* The counters of x are those of the matches ms: 3 points a win, 1 a draw.
CountersMatch(st, ms, x) ==
    LET mine == {m \in MatchesOf(ms, x) : m.home_score # NULL /\ m.away_score # NULL}
        won == Cardinality({m \in mine : OwnScore(m, x) > OtherScore(m, x)})
        drawn == Cardinality({m \in mine : OwnScore(m, x) = OtherScore(m, x)})
        lost == Cardinality({m \in mine : OwnScore(m, x) < OtherScore(m, x)})
    IN  /\ st.played = Cardinality(MatchesOf(ms, x))
        /\ st.won = won /\ st.drawn = drawn /\ st.lost = lost
        /\ st.points = 3 * won + drawn
        /\ st.goalsFor = GoalsSum(mine, x, TRUE)
        /\ st.goalsAgainst = GoalsSum(mine, x, FALSE)

\* C10 as stated: the mini-league counts exactly the FINISHED matches with
\* both endpoints in G = {team1, team2} \cup commonOpponents.
C10_AsStated ==
    (ret.op = "calculate_league_table" /\ ret.common_opponents # {}) =>
        LET G == {ret.team1, ret.team2} \cup ret.common_opponents
        IN  /\ DOMAIN ret.value.all_teams_stats = G
            /\ \A x \in G : CountersMatch(ret.value.all_teams_stats[x],
                                          FinishedWithin(matches, G), x)

\* C10, amended: for a non-empty set of common opponents the mini-league
\* counts exactly the FINISHED matches with both endpoints in G that carry
\* both scores: each side's played grows by one, a win gives 3 points, a draw
\* 1 point to both sides, a loss none, goalsFor and goalsAgainst add the two
\* scores; a match with an endpoint outside G or without a score changes no
\* row.
C10_MiniLeagueCountsScoredMatchesWithinG ==
    (ret.op = "calculate_league_table" /\ ret.common_opponents # {}) =>
        LET G == {ret.team1, ret.team2} \cup ret.common_opponents
        IN  /\ DOMAIN ret.value.all_teams_stats = G
            /\ \A x \in G : CountersMatch(ret.value.all_teams_stats[x],
                                          ScoredWithin(matches, G), x)
            /\ ret.value.team1 = ret.value.all_teams_stats[ret.team1]
            /\ ret.value.team2 = ret.value.all_teams_stats[ret.team2]

\* A mini-league with a won match inside G and a FINISHED, scored match with
\* an endpoint outside G.
C10_Witness ==
    /\ ret.op = "calculate_league_table"
    /\ ret.common_opponents # {}
    /\ LET G == {ret.team1, ret.team2} \cup ret.common_opponents
       IN  /\ \E m \in ScoredWithin(matches, G) : m.home_score # m.away_score
           /\ \E m \in ScoredWithin(matches, TeamIds) \ ScoredWithin(matches, G) :
                  m.home_team_id \in G \/ m.away_team_id \in G
    /\ \E x \in DOMAIN ret.value.all_teams_stats :
          ret.value.all_teams_stats[x].points = 3

\* ------------------------------------------------------------------ C11
\* A returned league table of a non-empty mini-league, and its group G.
LeagueTableReturned ==
    ret.op = "calculate_league_table" /\ ret.common_opponents # {}

LeagueG == {ret.team1, ret.team2} \cup ret.common_opponents

\* The entry of team x in the returned fullLeagueTable.
LeagueRow(x) ==
    LET t == ret.value.fullLeagueTable
    IN  t[CHOOSE i \in DOMAIN t : t[i].teamId = x]

\* The opponents x faced in the counted matches within G that played there.
FacedWithin(x) ==
    {o \in LeagueG :
        /\ \E m \in ScoredWithin(matches, LeagueG) :
              \/ m.home_team_id = x /\ m.away_team_id = o
              \/ m.away_team_id = x /\ m.home_team_id = o
        /\ LeagueRow(o).played > 0}

\* A common multiple of every played > 0 of the mini-league.
LeaguePlayedMultiple ==
    LET f[i \in 0..LeagueMatches] == IF i = 0 THEN 1 ELSE i * f[i - 1]
    IN  f[LeagueMatches]

\* LeaguePlayedMultiple * (sum of points/played, as the returned table has
\* them, over the opponents in faced).
LeagueScaledPPGSum(faced) ==
    LET f[i \in 0..NumTeams] ==
            IF i = 0 THEN 0
            ELSE f[i - 1] + (IF i \in faced
                             THEN LeagueRow(i).points
                                    * (LeaguePlayedMultiple \div LeagueRow(i).played)
                             ELSE 0)
    IN  f[NumTeams]

\* C11 as stated: the local solkoffCoefficient is the mean of points/played,
\* as accumulated in this mini-league, over the distinct opponents the team
\* faced within G; 0 when there is none.
C11_AsStated ==
    LeagueTableReturned =>
        \A x \in LeagueG :
            IF FacedWithin(x) = {} THEN LeagueRow(x).solkoffCoefficient = 0
            ELSE LeagueRow(x).solkoffCoefficient
                     * LeaguePlayedMultiple * Cardinality(FacedWithin(x))
                   = 1000 * LeagueScaledPPGSum(FacedWithin(x))

\* C11, amended: the local solkoffCoefficient is that mean rounded to 3
\* decimals (the opponents' points and played being those of this
\* mini-league), and 0 when the team faced no opponent within G.
C11_LocalSolkoffIsRoundedMeanWithinG ==
    LeagueTableReturned =>
        \A x \in LeagueG :
            IF FacedWithin(x) = {} THEN LeagueRow(x).solkoffCoefficient = 0
            ELSE NearestThousandth(LeagueRow(x).solkoffCoefficient,
                     LeagueScaledPPGSum(FacedWithin(x)),
                     LeaguePlayedMultiple * Cardinality(FacedWithin(x)))

\* A team that faced one of the two other teams of G, which took 1 point of
\* its 3 matches there: the mean is 1/3, the coefficient 0.333.
C11_Witness ==
    /\ LeagueTableReturned
    /\ \E x \in LeagueG :
          /\ FacedWithin(x) # {}
          /\ FacedWithin(x) # LeagueG \ {x}
          /\ \E o \in LeagueG \ ({x} \cup FacedWithin(x)) : LeagueRow(o).played > 0
          /\ LeagueRow(x).solkoffCoefficient = 333

\* ------------------------------------------------------------------ C12
\* (pointsPercentage, solkoffCoefficient, strengthPerGame, goalsFor) of x is
\* lexicographically greater than or equal to that of y.
TupleGeq(x, y) ==
    LET pp == x.pointsPercentage[1] * y.pointsPercentage[2]
                - y.pointsPercentage[1] * x.pointsPercentage[2]
        sk == x.solkoffCoefficient - y.solkoffCoefficient
        st == x.strengthPerGame[1] * y.strengthPerGame[2]
                - y.strengthPerGame[1] * x.strengthPerGame[2]
    IN  IF pp # 0 THEN pp > 0
        ELSE IF sk # 0 THEN sk > 0
        ELSE IF st # 0 THEN st > 0
        ELSE x.goalsFor >= y.goalsFor

\* C12: fullLeagueTable is sorted: for x before y the tuple
\* (pointsPercentage, solkoffCoefficient, strengthPerGame, goalsFor) of x is
\* lexicographically greater than or equal to that of y.
C12_FullLeagueTableSorted ==
    ret.op = "calculate_league_table" =>
        LET t == ret.value.fullLeagueTable
        IN  \A i, j \in DOMAIN t : i < j => TupleGeq(t[i], t[j])

\* A table of three entries where two have the same pointsPercentage and the
\* coefficient decides, and where the last entry is not the team of the
\* highest id.
C12_Witness ==
    /\ LeagueTableReturned
    /\ LET t == ret.value.fullLeagueTable
       IN  /\ Len(t) = 3
           /\ \E i \in 1..2 :
                 /\ RatEq(t[i].pointsPercentage, t[i + 1].pointsPercentage)
                 /\ t[i].solkoffCoefficient > t[i + 1].solkoffCoefficient
           /\ t[1].teamId > t[3].teamId

\* ------------------------------------------------------------------ C13
\* combined_i = 0.5 * main_i + 0.5 * local strengthPerGame_i of the call that
\* returned, as <<numerator, denominator>>.
Combined(i) ==
    <<ret.main[i][1] * ret.historical[i][2] + ret.historical[i][1] * ret.main[i][2],
      2 * ret.main[i][2] * ret.historical[i][2]>>

\* v (in thousandths) is exactly x[1] / x[2] over x[1] / x[2] + y[1] / y[2].
ExactShare(v, x, y) ==
    v * (x[1] * y[2] + y[1] * x[2]) = 1000 * x[1] * y[2]

\* C13: team1Win = combined1 / (combined1 + combined2) and team2Win =
\* combined2 / (combined1 + combined2); the method is "equal_strength" with
\* exactly 0.5/0.5 if and only if both combined strengths are 0, and otherwise
\* "combined_strength" with the four component strengths, each rounded to 3
\* decimals.
C13_WinProbabilityIsShareOfCombinedStrength ==
    ret.op = "_calculate_win_probability" =>
        IF Combined(1)[1] = 0 /\ Combined(2)[1] = 0
        THEN ret.value = [team1Win |-> 500, team2Win |-> 500, draw |-> 0,
                          method |-> "equal_strength"]
        ELSE /\ ret.value.method = "combined_strength"
             /\ ExactShare(ret.value.team1Win, Combined(1), Combined(2))
             /\ ExactShare(ret.value.team2Win, Combined(2), Combined(1))
             /\ NearestThousandth(ret.value.team1MainStrength,
                                  ret.main[1][1], ret.main[1][2])
             /\ NearestThousandth(ret.value.team2MainStrength,
                                  ret.main[2][1], ret.main[2][2])
             /\ NearestThousandth(ret.value.team1HistoricalStrength,
                                  ret.historical[1][1], ret.historical[1][2])
             /\ NearestThousandth(ret.value.team2HistoricalStrength,
                                  ret.historical[2][1], ret.historical[2][2])

\* ------------------------------------------------------------------ C14
\* C14: every win-probability record satisfies team1Win + team2Win = 1.0 and
\* draw = 0.0.
C14_WinProbabilitiesSumToOne ==
    ret.op = "_calculate_win_probability" =>
        /\ ret.value.team1Win + ret.value.team2Win = 1000
        /\ ret.value.draw = 0

\* ------------------------------------------------------------------ C15
\* C15: for two teams with no shared opponent and no main-league strength
\* data the analysis result carries winProbability = {team1Win: 0.5,
\* team2Win: 0.5, draw: 0.0, method: "equal_strength"}.
C15_NoDataGivesEqualStrength ==
    (/\ ret.op = "analyze_pair"
     /\ find_common_opponents(matches, ret.team1, ret.team2) = {}
     /\ standings = {}) =>
        /\ "winProbability" \in DOMAIN ret.value.leagueTable
        /\ ret.value.leagueTable.winProbability =
              [team1Win |-> 500, team2Win |-> 500, draw |-> 0,
               method |-> "equal_strength"]

\* ------------------------------------------------------------------ C16
\* A block of statistics with every counter 0.
ZeroBlock(b) ==
    /\ b.played = 0 /\ b.won = 0 /\ b.drawn = 0 /\ b.lost = 0
    /\ b.goalsFor = 0 /\ b.goalsAgainst = 0 /\ b.goalDifference = 0
    /\ b.points = 0 /\ b.matches = <<>>

\* C16: with an empty set of common opponents calculate_league_table returns
\* blocks for team1 and team2 with played = 0 and every other counter 0, and
\* an empty fullLeagueTable, whatever matches the two teams have.
C16_EmptyCommonOpponentsGivesZeroBlocks ==
    (ret.op = "calculate_league_table" /\ ret.common_opponents = {}) =>
        /\ ret.value.team1.teamId = ret.team1 /\ ZeroBlock(ret.value.team1)
        /\ ret.value.team2.teamId = ret.team2 /\ ZeroBlock(ret.value.team2)
        /\ ret.value.fullLeagueTable = <<>>

\* The call with no common opponents for two teams that met in a finished,
\* scored match.
C16_Witness ==
    /\ ret.op = "calculate_league_table"
    /\ ret.common_opponents = {}
    /\ ret.team1 # ret.team2
    /\ ScoredWithin(matches, {ret.team1, ret.team2}) # {}

\* ------------------------------------------------------------------ C17
\* The name and crest reported for a team that is not in the teams table.
ReportedUnknown(b) == b.teamName = "Unknown" /\ b.teamCrest = None

\* C17: a team id that is absent from the teams table makes neither
\* calculate_league_table nor analyze_pair fail: the result is returned and
\* reports name "Unknown" and crest null for that team, with and without
\* common opponents.
C17_AbsentTeamIsReportedUnknown ==
    /\ ret.op = "calculate_league_table" =>
          /\ ret.team1 \notin teams => ReportedUnknown(ret.value.team1)
          /\ ret.team2 \notin teams => ReportedUnknown(ret.value.team2)
          /\ \A i \in DOMAIN ret.value.fullLeagueTable :
                ret.value.fullLeagueTable[i].teamId \notin teams
                    => ReportedUnknown(ret.value.fullLeagueTable[i])
    /\ ret.op = "analyze_pair" =>
          /\ ret.team1 \notin teams =>
                /\ ret.value.team1.name = "Unknown" /\ ret.value.team1.crest = None
                /\ ReportedUnknown(ret.value.leagueTable.team1)
          /\ ret.team2 \notin teams =>
                /\ ret.value.team2.name = "Unknown" /\ ret.value.team2.crest = None
                /\ ReportedUnknown(ret.value.leagueTable.team2)

\* A league table with common opponents for a team1 that is not in the teams
\* table, next to a team2 that is.
C17_Witness ==
    /\ LeagueTableReturned
    /\ ret.team1 \notin teams
    /\ ret.team2 \in teams
    /\ ret.value.team1.teamName = "Unknown"
    /\ ret.value.team2.teamName # "Unknown"
    /\ Len(ret.value.fullLeagueTable) = 3

\* ------------------------------------------------------------------ C18
\* The markers of the round text and of the stage text, in the order they
\* are tried, each with the stage it names.
RoundMarkers ==
    <<<<{PLAY_OFF, PLAYOFF}, "KNOCKOUT_PLAYOFF">>,
      <<{ROUND_OF_16, ROUND_OF_16_SPACED, LAST_16}, "ROUND_OF_16">>,
      <<{QUARTER}, "QUARTER_FINAL">>,
      <<{SEMI}, "SEMI_FINAL">>,
      <<{FINAL}, "FINAL">>>>

StageTextMarkers ==
    <<<<{KNOCKOUT, PLAY_OFF}, "KNOCKOUT_PLAYOFF">>,
      <<{ROUND_OF_16, LAST_16}, "ROUND_OF_16">>,
      <<{QUARTER}, "QUARTER_FINAL">>,
      <<{SEMI}, "SEMI_FINAL">>,
      <<{FINAL}, "FINAL">>>>

\* The stage of the first entry of the table one of whose markers is in the
\* text, whatever the case of the text; None when there is none.
FirstNamed(text, markers) ==
    LET hits == {k \in DOMAIN markers :
                    /\ text # NullText
                    /\ \E marker \in markers[k][1] : contains(marker, upper(text))}
    IN  IF hits = {} THEN None
        ELSE markers[CHOOSE k \in hits : \A j \in hits : k <= j][2]

\* The stages the matchday ranges of the claim allow: one from 7 on, any
\* below 7, where the claim says nothing.
MatchdayStages(matchday) ==
    IF matchday < 7 THEN StageNames
    ELSE IF matchday \in 7..8 THEN {"KNOCKOUT_PLAYOFF"}
    ELSE IF matchday \in 9..10 THEN {"ROUND_OF_16"}
    ELSE IF matchday \in 11..12 THEN {"QUARTER_FINAL"}
    ELSE IF matchday \in 13..14 THEN {"SEMI_FINAL"}
    ELSE {"FINAL"}

ExpectedStages(m) ==
    IF FirstNamed(m.round, RoundMarkers) # None
    THEN {FirstNamed(m.round, RoundMarkers)}
    ELSE IF FirstNamed(m.stage, StageTextMarkers) # None
    THEN {FirstNamed(m.stage, StageTextMarkers)}
    ELSE MatchdayStages(m.matchday)

\* The matches of the store between the two teams of a pair.
MatchesOfPair(pair) ==
    {m \in matches : {m.home_team_id, m.away_team_id}
                         = {pair.team1.id, pair.team2.id}}

PlayoffPairsReturned ==
    ret.op = "get_playoff_pairs" /\ ret.result.raised = None

\* C18: in get_playoff_pairs without a stage the label of a match is the
\* stage of the first marker found in its round text; if the round text has
\* none, the stage of the first marker found in its stage text; if neither
\* has one, the stage of its matchday: 7-8 play-off, 9-10 round of 16,
\* 11-12 quarter-finals, 13-14 semi-finals, 15 or more final.  (A pair
\* carries the label of a match of its two teams.)
C18_StageLabelByStrictPrecedence ==
    PlayoffPairsReturned =>
        \A i \in DOMAIN ret.result.value :
            \E m \in MatchesOfPair(ret.result.value[i]) :
                \E stage \in ExpectedStages(m) :
                    ret.result.value[i].stage = stage_display_name(stage)

\* A pair of one match whose round text, stage text and matchday name three
\* different stages.
C18_Witness ==
    /\ PlayoffPairsReturned
    /\ \E i \in DOMAIN ret.result.value :
          \E m \in matches :
              /\ MatchesOfPair(ret.result.value[i]) = {m}
              /\ FirstNamed(m.round, RoundMarkers) # None
              /\ FirstNamed(m.stage, StageTextMarkers) # None
              /\ m.matchday >= 7
              /\ Cardinality({FirstNamed(m.round, RoundMarkers),
                              FirstNamed(m.stage, StageTextMarkers)}
                             \cup MatchdayStages(m.matchday)) = 3

\* ------------------------------------------------------------------ C19
LeagueMatch(m) == m.stage = LEAGUE_STAGE \/ truthy(m.group_name)

\* C19: a match with stage = LEAGUE_STAGE or with a non-empty group_name
\* contributes nothing to the knockout output, whatever its round text and
\* matchday: every pair of get_playoff_pairs and of get_pairs_by_stage, for
\* any stage asked, has a match that is not such a match, and
\* get_current_stage gives what it gives on the store without such matches.
C19_LeagueMatchesNeverContribute ==
    /\ (/\ ret.op \in {"get_playoff_pairs", "get_pairs_by_stage"}
        /\ ret.result.raised = None)
       => \A i \in DOMAIN ret.result.value :
              \E m \in MatchesOfPair(ret.result.value[i]) : ~LeagueMatch(m)
    /\ ret.op = "get_current_stage"
       => ret.result = get_current_stage({m \in matches : ~LeagueMatch(m)})

\* ------------------------------------------------------------------ C20
\* The matches get_current_stage scans that are not league matches.
ScannedKnockout ==
    {m \in matches : m.status \in ListedStatuses /\ ~LeagueMatch(m)}

\* The stages observed in a match: what its round text, its stage text and
\* its matchday name.
ObservedStages(m) ==
    ({FirstNamed(m.round, RoundMarkers), FirstNamed(m.stage, StageTextMarkers)}
     \cup (IF m.matchday >= 7 THEN MatchdayStages(m.matchday) ELSE {}))
    \ {None}

StageRank(stage) ==
    CASE stage = "LEAGUE" -> 0
      [] stage = "KNOCKOUT_PLAYOFF" -> 1
      [] stage = "ROUND_OF_16" -> 2
      [] stage = "QUARTER_FINAL" -> 3
      [] stage = "SEMI_FINAL" -> 4
      [] stage = "FINAL" -> 5

\* The value returned is one of the six stage names: LEAGUE when no stage is
\* observed, otherwise the observed stage of the highest priority.
HighestObserved ==
    LET observed == UNION {ObservedStages(m) : m \in ScannedKnockout}
    IN  /\ ret.result.value \in StageNames \cup {"LEAGUE"}
        /\ observed = {} => ret.result.value = "LEAGUE"
        /\ observed # {} =>
              /\ ret.result.value \in observed
              /\ \A stage \in observed :
                    StageRank(ret.result.value) >= StageRank(stage)

\* C20: get_current_stage returns one of the six stage names: LEAGUE when
\* no stage is observed in the scanned matches that are not league matches,
\* otherwise the observed stage of the highest priority (FINAL > SEMI_FINAL
\* > QUARTER_FINAL > ROUND_OF_16 > KNOCKOUT_PLAYOFF).
C20_CurrentStageIsHighestObserved ==
    ret.op = "get_current_stage" =>
        ret.result.raised = None /\ HighestObserved

\* ------------------------------------------------------------------ C21
\* The one stage the precedence selects for a match in the current-stage
\* scan: what its round text names; if it names none, what its stage text
\* names; if neither names one, what its matchday names from 7 on.
SelectedStages(m) ==
    IF FirstNamed(m.round, RoundMarkers) # None
    THEN {FirstNamed(m.round, RoundMarkers)}
    ELSE IF FirstNamed(m.stage, StageTextMarkers) # None
    THEN {FirstNamed(m.stage, StageTextMarkers)}
    ELSE IF m.matchday >= 7 THEN MatchdayStages(m.matchday)
    ELSE {}

\* C21: in get_current_stage each scanned match that is not a league match
\* contributes exactly the one stage the precedence selects: the stage
\* returned is LEAGUE when no match selects one, otherwise the highest of
\* the selected stages.
C21_EachMatchContributesItsSelectedStage ==
    (ret.op = "get_current_stage" /\ ret.result.raised = None) =>
        LET selected == UNION {SelectedStages(m) : m \in ScannedKnockout}
        IN  /\ selected = {} => ret.result.value = "LEAGUE"
            /\ selected # {} =>
                  /\ ret.result.value \in selected
                  /\ \A stage \in selected :
                        StageRank(ret.result.value) >= StageRank(stage)

\* ------------------------------------------------------------------ C22
\* A list of pairs returned by one of the two listing modes.
PairsListed ==
    /\ ret.op \in {"get_playoff_pairs", "get_pairs_by_stage"}
    /\ ret.result.raised = None

\* The matches that qualify for the list returned: those the query of the
\* mode selects and its loop does not skip.
Qualifying ==
    {m \in (IF ret.op = "get_playoff_pairs"
            THEN playoff_matches(matches, teams)
            ELSE IF ret.stage \in StageNames
            THEN stage_matches(matches, teams, ret.stage)
            ELSE {}) :
        m.stage # LEAGUE_STAGE}

QualifyingOf(key) ==
    {m \in Qualifying : pair_key(m.home_team_id, m.away_team_id) = key}

\* m stands for its pair: no qualifying match of the pair has a higher
\* matchday, and of those with its matchday that have a valid date none has
\* a later one than m, which has one if any of them has.
Represents(m, ms) ==
    LET ties == {x \in ms : x.matchday = m.matchday}
        dated == {x \in ties : _is_valid_date(x.date, ret.now)}
    IN  /\ \A x \in ms : x.matchday <= m.matchday
        /\ dated # {} =>
              /\ m \in dated
              /\ \A x \in dated : utc_hours(x.date) <= utc_hours(m.date)

\* C22: in both listing modes the qualifying matches of two teams, in
\* either home and away order, give exactly one pair, and the matchId,
\* matchday and status of the pair are those of the qualifying match with
\* the highest matchday, the latest valid date deciding between matches of
\* that matchday.
C22_OnePairPerTeamsWithTheLatestMatch ==
    PairsListed =>
        LET pairs == ret.result.value
            key_of(i) == pair_key(pairs[i].team1.id, pairs[i].team2.id)
        IN  /\ \A i \in DOMAIN pairs, j \in DOMAIN pairs :
                  key_of(i) = key_of(j) => i = j
            /\ \A m \in Qualifying :
                  \E i \in DOMAIN pairs :
                      key_of(i) = pair_key(m.home_team_id, m.away_team_id)
            /\ \A i \in DOMAIN pairs :
                  \E m \in QualifyingOf(key_of(i)) :
                      /\ Represents(m, QualifyingOf(key_of(i)))
                      /\ pairs[i].matchId = m.id
                      /\ pairs[i].matchday = m.matchday
                      /\ pairs[i].status = m.status

\* ------------------------------------------------------------------ C23
\* now + 2 years and now - 180 days, in hours from 1970-01-01T00:00Z (two
\* years after a 29 February: 28 February).
TwoYearsFrom(now) ==
    days_from_civil(now.year + 2, now.month,
                    IF day_exists(now.year + 2, now.month, now.day)
                    THEN now.day ELSE now.day - 1) * 24 + now.hour

Days180Before(now) ==
    days_from_civil(now.year, now.month, now.day) * 24 + now.hour - 180 * 24

Parses(date) == date.text = "iso"

\* The date field of every pair listed is null or a date the filter accepts.
PairDatesAreNullOrAccepted ==
    PairsListed =>
        \A i \in DOMAIN ret.result.value :
            \/ ret.result.value[i].date = NullDate
            \/ _is_valid_date(ret.result.value[i].date, ret.now)

\* The date of the scenario, 2019-05-01T00:00:00Z, is not accepted in 2026.
ScenarioDateRejected ==
    (/\ ret.op = "_is_valid_date"
     /\ ret.date = DateText(2019, 5, 1, 0, "Z")
     /\ ret.now.year = 2026)
    => ~ret.value

\* C23 as stated: the filter accepts a date only if it parses as ISO-8601
\* and lies strictly between now - 180 days and now + 2 years, for every
\* now; the date of every pair listed is null or an accepted date; the
\* date 2019-05-01T00:00:00Z evaluated in 2026 is rejected.
C23_AsStated ==
    /\ (ret.op = "_is_valid_date" /\ ret.value) =>
          /\ Parses(ret.date)
          /\ utc_hours(ret.date) > Days180Before(ret.now)
          /\ utc_hours(ret.date) < TwoYearsFrom(ret.now)
    /\ PairDatesAreNullOrAccepted
    /\ ScenarioDateRejected

\* C23, amended: the same with the two ends of the window included: a date
\* exactly 180 days before now, or exactly two years after it, is accepted.
C23_DatesOutsideTheWindowAreNull ==
    /\ (ret.op = "_is_valid_date" /\ ret.value) =>
          /\ Parses(ret.date)
          /\ utc_hours(ret.date) >= Days180Before(ret.now)
          /\ utc_hours(ret.date) <= TwoYearsFrom(ret.now)
    /\ PairDatesAreNullOrAccepted
    /\ ScenarioDateRejected

\* A list has a pair whose match has a stored date that parses and is more
\* than 180 days back: the pair reports it as null.
C23_Witness ==
    /\ PairsListed
    /\ \E i \in DOMAIN ret.result.value :
          \E m \in matches :
              /\ m.id = ret.result.value[i].matchId
              /\ Parses(m.date)
              /\ utc_hours(m.date) < Days180Before(ret.now)
              /\ ret.result.value[i].date = NullDate

\* ------------------------------------------------------------------ C24
PairFields ==
    {"matchId", "team1", "team2", "matchday", "stage", "status", "date",
     "winProbability"}

\* C24: every pair returned by get_playoff_pairs without a stage and by
\* get_pairs_by_stage carries a winProbability record, next to matchId,
\* team1, team2, matchday, stage, status and date.
C24_EveryPairCarriesAWinProbability ==
    PairsListed =>
        \A i \in DOMAIN ret.result.value :
            /\ PairFields \subseteq DOMAIN ret.result.value[i]
            /\ {"team1Win", "team2Win", "draw", "method"}
                   \subseteq DOMAIN ret.result.value[i].winProbability

\* ------------------------------------------------------------------ C25
\* A call of get_pairs_by_stage and what the same call gives when no
\* computation fails.
StageCall == ret.op = "get_pairs_by_stage"

WithoutFailure ==
    get_pairs_by_stage(matches, standings, solkoff_coefficients, teams,
                       ret.stage, ret.now, {})

Failed(pair) == pair_key(pair.team1.id, pair.team2.id) \in ret.failing

\* C25: when the computation of the win probability fails for a pair in
\* get_pairs_by_stage, the pair is returned with winProbability {team1Win:
\* 0.5, team2Win: 0.5, draw: 0.0, method: "error"}, every other pair is
\* returned as it is when nothing fails, and the call fails only if it
\* fails without the failure too.
C25_AFailingPairGetsTheErrorRecord ==
    StageCall =>
        \E plain \in WithoutFailure :
            /\ ret.result.raised = plain.raised
            /\ ret.result.raised = None =>
                  /\ Len(ret.result.value) = Len(plain.value)
                  /\ \A i \in DOMAIN plain.value :
                        IF Failed(plain.value[i])
                        THEN ret.result.value[i] =
                                 [plain.value[i] EXCEPT !.winProbability =
                                     [team1Win |-> 500, team2Win |-> 500,
                                      draw |-> 0, method |-> "error"]]
                        ELSE ret.result.value[i] = plain.value[i]

\* A list of two pairs, the computation failed for one of them.
C25_Witness ==
    /\ StageCall
    /\ ret.result.raised = None
    /\ Len(ret.result.value) = 2
    /\ \E i, j \in DOMAIN ret.result.value :
          /\ Failed(ret.result.value[i])
          /\ ret.result.value[i].winProbability.method = "error"
          /\ ~Failed(ret.result.value[j])
          /\ ret.result.value[j].winProbability.method # "error"

\* ------------------------------------------------------------------ C27
\* C27: a match whose round text names a stage is returned by
\* get_pairs_by_stage(S) only when S is that stage, and labelled with it:
\* every match behind a pair of the list whose round text names a stage
\* names the stage asked for, also the label of the pair.
C27_ByStageReturnsTheStageOfTheRoundText ==
    (StageCall /\ ret.result.raised = None) =>
        \A i \in DOMAIN ret.result.value :
            \A m \in QualifyingOf(pair_key(ret.result.value[i].team1.id,
                                            ret.result.value[i].team2.id)) :
                FirstNamed(m.round, RoundMarkers) # None =>
                    /\ ret.stage = FirstNamed(m.round, RoundMarkers)
                    /\ ret.result.value[i].stage =
                           stage_display_name(FirstNamed(m.round, RoundMarkers))

\* ------------------------------------------------------------------ C28
\* C28: in every pair returned by get_playoff_pairs and by
\* get_pairs_by_stage the name and crest of team1 are those stored in teams
\* for team1.id, and those of team2 are those stored for team2.id.
C28_PairTeamsCarryTheirStoredNameAndCrest ==
    PairsListed =>
        \A i \in DOMAIN ret.result.value :
            LET pair == ret.result.value[i]
            IN  /\ pair.team1.name = <<StoredName(pair.team1.id)>>
                /\ pair.team1.crest = <<StoredName(pair.team1.id)>>
                /\ pair.team2.name = <<StoredName(pair.team2.id)>>
                /\ pair.team2.crest = <<StoredName(pair.team2.id)>>

\* ------------------------------------------------------------------ C29
\* C29: on every store the data model allows (matchday nullable, date
\* nullable or rejected by the filter) get_current_stage, get_playoff_pairs
\* and get_pairs_by_stage complete and return a result.
C29_TheCallsAlwaysReturn ==
    ret.op \in {"get_current_stage", "get_playoff_pairs", "get_pairs_by_stage"}
        => ret.result.raised = None

\* ------------------------------------------------------------------ C26
\* The calls a pass of update_data makes, in their order, when sync_all
\* returns and when it raises.
CallsOfAPass == <<"sync_all", "calculate_all">>
CallsOfAFailedPass == <<"sync_all">>

UpdateReturned(u) == u.pc = "idle" /\ u.calls # <<>>

\* C26: every update pass, of the interval job and of trigger_update, calls
\* sync_all before calculate_all and each once; when sync_all raises,
\* calculate_all is not called in that pass and update_data returns, no
\* exception leaving it.
C26_SyncThenCalculateOnceEach ==
    \A p \in Threads :
        LET u == updates[p]
        IN  /\ u.pc \in {"idle", "sync_all", "calculate_all", "execute", "commit"}
            /\ u.pc = "sync_all" => u.calls = <<>> /\ ~u.failed
            /\ u.pc = "calculate_all" => u.calls = <<"sync_all">> /\ ~u.failed
            /\ u.pc \in {"execute", "commit"} => u.calls = CallsOfAPass /\ ~u.failed
            /\ UpdateReturned(u) =>
                   u.calls = IF u.failed THEN CallsOfAFailedPass ELSE CallsOfAPass

\* One thread returned from a pass whose sync_all raised, the other from a
\* pass that ran both calls.
C26_Witness ==
    \E p, q \in Threads :
        /\ UpdateReturned(updates[p]) /\ updates[p].failed
        /\ updates[p].calls = CallsOfAFailedPass
        /\ UpdateReturned(updates[q]) /\ ~updates[q].failed
        /\ updates[q].calls = CallsOfAPass
        /\ solkoff_coefficients # {}

\* ------------------------------------------------------------------ C30
\* What get(endpoint) returns from the store at a time.
Served(endpoint, time) == get(api_cache, endpoint, time).result.value

AtMostOneEntryPerEndpoint ==
    \A endpoint \in Endpoints :
        Cardinality({r \in api_cache.rows : r.cache_key = _generate_key(endpoint)}) <= 1

\* The entry of the endpoint of the last call is served until its expiry
\* time, and gone after it.
EntryServedUntilExpiry ==
    \A time \in ret.now..(MaxClock + DefaultTtl) :
        IF time <= ret.now + DefaultTtl
        THEN Served(ret.endpoint, time) = Some(ret.data)
        ELSE /\ Served(ret.endpoint, time) = NoDict
             /\ get(api_cache, ret.endpoint, time).table.rows
                   = {r \in api_cache.rows : r.cache_key # _generate_key(ret.endpoint)}

\* C30: on the store Database created, set(endpoint, data) succeeds and get
\* of the endpoint returns the data until the entry expires, then None with
\* the entry deleted; the cache never holds two entries of an endpoint; a
\* response fetched with caching enabled is returned to the caller and is
\* served from the cache within the TTL.
C30_CachedResponsesAreServed ==
    /\ AtMostOneEntryPerEndpoint
    /\ ret.op = "set" => ret.result.raised = None /\ EntryServedUntilExpiry
    /\ ret.op = "_make_request" /\ ret.requested /\ ret.result.raised # HTTPStatusError =>
            /\ ret.result = Returned(ret.data)
            /\ \A time \in ret.now..(ret.now + DefaultTtl) :
                   truthy_dict(Served(ret.endpoint, time))

====
